---- MODULE Spec2Model ----
(***************************************************************************)
(* ec2-slackbot: the command router / interaction dispatcher               *)
(* (ec2_slackbot/slack_handler.py) and the resource orchestrator           *)
(* (ec2_slackbot/aws_handler.py), run against a model of the provider      *)
(* (EC2) and of the chat platform (modals, chat_postMessage).              *)
(*                                                                         *)
(* A webhook handler is one atomic action: it reads the provider, opens a  *)
(* modal or schedules a background unit, and returns.  A background unit   *)
(* (run_command) advances one provider call or one waiter at a time, so    *)
(* units interleave at every provider call.  The provider moves resources  *)
(* between their states on its own (Provider... actions).                  *)
(***************************************************************************)
EXTENDS Integers, Sequences, FiniteSets, TLC

\* ------------------------------------------------------------ bounds
MaxEvents == 3
MaxInstances == 2
MaxVolumes == 2
MaxRaceEvents == 4
MaxPairEvents == 2

\* Scanner passes in a run, and the days a run lets pass.
MaxPasses == 2
MaxDays == 2
\* the modals open when a run of the earlier server starts
MaxLegacyModals == 2

\* ------------------------------------------------------------ configuration
Users == {"u1", "u2"}
InstanceTypes == {"t1", "t2"}
MountOptions == {"none", "efs", "efs_root", "ebs"}
\* config["max_volume_size"], and the sizes a user types into a modal
max_volume_size == 2
SubmittedSizes == {1, 3}
\* the public keys a user pastes into the key modal
PublicKeys == {"ssh-rsa A", "ssh-rsa B"}

None == 0

\* an optional text: the sequence of its lines and line ends, or nothing; + on
\* strings is \o on the sequences
NoText == [present |-> FALSE, text |-> <<>>]
Text(t) == [present |-> TRUE, text |-> t]

\* resize_volume: for _ in range(60)
range_60 == 60

VARIABLES
    instances,  \* provider: sequence of instances, the index is the instance id
    volumes,    \* provider: sequence of volumes, the index is the volume id
    threads,    \* background units started by handle_aws_command, in start order
    key_pairs,  \* provider: the key pairs, each a name and its public key
    modals,     \* chat platform: open modals per user and callback id
    direct,     \* chat platform: messages posted by a request handler itself
    config,     \* the configuration file the server was started with
    exchange,   \* the last webhook request and the reply it was given
    chat        \* chat platform: its members and the warnings posted to them

provider == <<instances, volumes, key_pairs>>
vars == <<instances, volumes, key_pairs, threads, modals, direct, config, exchange, chat>>

InstanceIds == 1..MaxInstances
VolumeIds == 1..MaxVolumes

CallbackSeq ==
    <<"launch_instance", "terminate_instance", "stop_instance", "start_instance",
      "change_instance", "create_volume", "attach_volume", "submit_key",
      "resize_volume">>
CallbackIds == {CallbackSeq[k] : k \in DOMAIN CallbackSeq}

\* ------------------------------------------------------------ tags
\* get_tags_for_user that lets the configured tags stand for the owner tag
get_tags_for_user_defaults_first(user_name) ==
    IF \E k \in DOMAIN config.default_tags.items : config.default_tags.items[k].Key = "User"
    THEN config.default_tags.items
    ELSE <<[Key |-> "User", Value |-> user_name]>> \o config.default_tags.items

\* get_tags_for_user: the owner tag, then config.get("default_tags", []).items();
\* without default_tags in the configuration [].items() raises AttributeError
get_tags_for_user(user_name) ==
    <<[Key |-> "User", Value |-> user_name]>> \o config.default_tags.items

\* the provider's filter tag:<key> = value
HasTag(tags, key, value) ==
    \E k \in DOMAIN tags : tags[k].Key = key /\ tags[k].Value = value

\* the provider refuses a tag list that names a key twice
UniqueKeys(tags) ==
    \A j, k \in DOMAIN tags : tags[j].Key = tags[k].Key => j = k

\* ------------------------------------------------------------ provider reads
\* describe_instances filtered by tag:User and instance-state-name
get_instances_for_user(user_name, states) ==
    {i \in DOMAIN instances :
        /\ HasTag(instances[i].tags, "User", user_name)
        /\ instances[i].state \in states}

get_instance_options(user_name, states) == get_instances_for_user(user_name, states)

get_instance_type(instance_id) == instances[instance_id].type

\* describe_volumes filtered by tag:User returns the volumes that still exist
VolumesOf(user_name) ==
    {v \in DOMAIN volumes :
        /\ HasTag(volumes[v].tags, "User", user_name)
        /\ volumes[v].state # "deleted"}

\* get_volume_for_user returns Volumes[0] of the provider's answer, or None; the
\* provider lists volumes in no promised order, so any of them may come first
get_volume_for_user(user_name) ==
    IF VolumesOf(user_name) = {} THEN {None} ELSE VolumesOf(user_name)

\* the attachment list of a volume as the provider reports it
Attachments(v) == volumes[v].att

\* ------------------------------------------------------------ messages
\* A message template is its text, the value the handler already substituted into
\* it (an f-string), and whether the text still holds a "{}" for str.format.
Template(text, arg) == [text |-> text, arg |-> arg, fill |-> FALSE]
Placeholder(text) == [text |-> text, arg |-> "{}", fill |-> TRUE]

\* template.format(value)
Format(template, value) ==
    IF template.fill THEN [template EXCEPT !.arg = value, !.fill = FALSE] ELSE template

\* client.chat_postMessage(channel=user_id, text=...) by a background unit
chat_postMessage(th, text) ==
    [th EXCEPT !.posted = Append(@, [channel |-> th.user, text |-> text.text,
                                     arg |-> text.arg])]

\* run_command: the function returned `response`
run_command_return(th, response) ==
    [chat_postMessage(th, Format(th.success_message, response)) EXCEPT !.pc = "done"]

\* run_command with an except clause that marks the failure and posts nothing
run_command_raise_silent(th, exc) ==
    IF exc = "ClientError"
    THEN [th EXCEPT !.pc = "failed", !.raised = exc]
    ELSE [th EXCEPT !.pc = "lost", !.raised = exc]

\* run_command with `except Exception`: every failure is reported
run_command_raise_any(th, exc) ==
    [chat_postMessage(th, Format(th.error_message, exc))
     EXCEPT !.pc = "failed", !.raised = exc]

\* run_command that notes the error and lets the function go on at the call
\* that failed
run_command_raise_again(th, exc) == [th EXCEPT !.raised = exc]

\* run_command: the function raised `exc`; only ClientError is caught
run_command_raise(th, exc) ==
    IF exc = "ClientError"
    THEN [chat_postMessage(th, Format(th.error_message, exc))
          EXCEPT !.pc = "failed", !.raised = exc]
    ELSE [th EXCEPT !.pc = "lost", !.raised = exc]

\* ------------------------------------------------------------ scheduling
NewThread(function, user, pc0, success, error) ==
    [function |-> function, user |-> user, pc |-> pc0, unit |-> "background",
     success_message |-> success, error_message |-> error,
     instance_ids |-> {}, instance_type |-> "-", volume_id |-> None,
     submitted |-> 0, size |-> 0, root_ebs_size |-> 0, public_key |-> "-", polls |-> 0,
     mount_option |-> "-", ami_user |-> "-", startup_script |-> NoText,
     attachments |-> {},
     detached |-> {}, response |-> None, raised |-> "-", posted |-> <<>>]

\* run_command() called by the handler itself instead of on a thread
handle_aws_command_inline(th) ==
    threads' = Append(threads, [th EXCEPT !.unit = "request"])

\* a handle_aws_command that starts a unit only when no other is on its way
handle_aws_command_exclusive(th) ==
    /\ \A t \in DOMAIN threads : threads[t].pc \in {"done", "failed", "lost"}
    /\ threads' = Append(threads, th)

\* threading.Thread(target=run_command).start(): the unit is started and the
\* handler goes on without it
handle_aws_command(th) == threads' = Append(threads, th)

\* the modals a user has open, and all of them
RECURSIVE OpenModalsOf(_, _)
OpenModalsOf(u, k) ==
    IF k = 0 THEN 0 ELSE modals[u][CallbackSeq[k]] + OpenModalsOf(u, k - 1)

OpenModals ==
    OpenModalsOf("u1", Len(CallbackSeq)) + OpenModalsOf("u2", Len(CallbackSeq))

\* client.views_open(trigger_id, view): the modal is shown to the user
views_open(user, callback_id) ==
    modals' = [modals EXCEPT ![user][callback_id] = @ + 1]

\* the chat platform delivers a view_submission of a modal the user has open
Submitted(user, callback_id) ==
    /\ modals[user][callback_id] > 0
    /\ modals' = [modals EXCEPT ![user][callback_id] = @ - 1]

Running(t, function, pc) ==
    /\ t \in DOMAIN threads
    /\ threads[t].function = function
    /\ threads[t].pc = pc

\* ------------------------------------------------------------ /ebs create
open_volume_create_modal(user) ==
    /\ \E volume \in get_volume_for_user(user) :
          IF volume # None
          THEN UNCHANGED modals   \* "EBS volume already exists, please /ebs destroy first."
          ELSE views_open(user, "create_volume")
    /\ UNCHANGED <<provider, threads, direct, config, chat>>

\* the create_volume branch without min(volume_size, max_volume_size)
submit_create_volume_unclamped(user, value) ==
    /\ Submitted(user, "create_volume")
    /\ handle_aws_command(
         [NewThread("create_volume", user, "create",
                    Template("EBS volume of {} GiB created successfully.", value),
                    Placeholder("Error creating EBS volume: {}"))
          EXCEPT !.submitted = value, !.size = value])
    /\ UNCHANGED <<provider, direct, config, chat>>

\* handle_interactions, callback_id == "create_volume"
submit_create_volume(user, value) ==
    /\ Submitted(user, "create_volume")
    /\ LET volume_size == IF value < max_volume_size THEN value ELSE max_volume_size
       IN handle_aws_command(
            [NewThread("create_volume", user, "create",
                       Template("EBS volume of {} GiB created successfully.", volume_size),
                       Placeholder("Error creating EBS volume: {}"))
             EXCEPT !.submitted = value, !.size = volume_size])
    /\ UNCHANGED <<provider, direct, config, chat>>

\* AWSHandler.create_volume: ec2_client.create_volume(...)
create_volume_call(t) ==
    /\ Running(t, "create_volume", "create")
    /\ \/ /\ ~config.default_tags.present
          /\ threads' = [threads EXCEPT ![t] = run_command_raise(@, "AttributeError")]
          /\ UNCHANGED volumes
       \/ /\ config.default_tags.present
          /\ Len(volumes) < MaxVolumes   \* else VolumeLimitExceeded
          /\ UniqueKeys(get_tags_for_user(threads[t].user))
          /\ threads[t].size >= 1
          /\ volumes' = Append(volumes,
                [tags |-> get_tags_for_user(threads[t].user), size |-> threads[t].size,
                 state |-> "creating", multi |-> FALSE, att |-> {}, detaching |-> {},
                 modification |-> "none", target |-> threads[t].size])
          /\ threads' = [threads EXCEPT ![t].pc = "wait_available",
                                        ![t].volume_id = Len(volumes) + 1]
       \/ /\ config.default_tags.present
          /\ threads' = [threads EXCEPT ![t] = run_command_raise(@, "ClientError")]
          /\ UNCHANGED volumes
    /\ UNCHANGED <<instances, key_pairs, modals, direct, config, chat, exchange>>

\* AWSHandler.create_volume: waiter volume_available, then return VolumeId
create_volume_wait(t) ==
    /\ Running(t, "create_volume", "wait_available")
    /\ IF volumes[threads[t].volume_id].state = "available"
       THEN threads' = [threads EXCEPT
                ![t] = run_command_return(@, threads[t].volume_id)]
       ELSE threads' = [threads EXCEPT ![t] = run_command_raise(@, "WaiterError")]
    /\ UNCHANGED <<provider, modals, direct, config, chat, exchange>>

\* ------------------------------------------------------------ /ec2 key
\* describe_key_pairs(KeyNames=[user_name]): the material stored under the name
KeysOf(user_name) == {k.KeyMaterial : k \in {p \in key_pairs : p.KeyName = user_name}}

\* handle_ec2_commands "key": open_key_modal
ec2_key(user) ==
    /\ views_open(user, "submit_key")
    /\ UNCHANGED <<provider, threads, direct, config, chat>>

\* handle_interactions, callback_id == "submit_key"
submit_key(user, public_key) ==
    /\ Submitted(user, "submit_key")
    /\ handle_aws_command(
         [NewThread("create_key_pair", user, "delete_key_pair",
                    Template("Public key updated successfully.", None),
                    Placeholder("Failed to store public key: {}"))
          EXCEPT !.public_key = public_key])
    /\ UNCHANGED <<provider, direct, config, chat>>

\* create_key_pair: ec2_client.delete_key_pair(KeyName=user_name); a ClientError
\* of this call is swallowed
create_key_pair_delete(t) ==
    /\ Running(t, "create_key_pair", "delete_key_pair")
    /\ \/ key_pairs' = {p \in key_pairs : p.KeyName # threads[t].user}
       \/ UNCHANGED key_pairs
    /\ threads' = [threads EXCEPT ![t].pc = "import_key_pair"]
    /\ UNCHANGED <<instances, volumes, modals, direct, config, chat, exchange>>

\* create_key_pair that returns once the old key is deleted
create_key_pair_import_skipped(t) ==
    /\ Running(t, "create_key_pair", "import_key_pair")
    /\ threads' = [threads EXCEPT ![t] = run_command_return(@, None)]
    /\ UNCHANGED <<provider, modals, direct, config, chat, exchange>>

\* create_key_pair that puts the first key back when the import is refused
create_key_pair_import_restoring(t) ==
    /\ Running(t, "create_key_pair", "import_key_pair")
    /\ \/ /\ KeysOf(threads[t].user) = {}
          /\ key_pairs' = key_pairs \cup
                {[KeyName |-> threads[t].user, KeyMaterial |-> threads[t].public_key]}
          /\ threads' = [threads EXCEPT ![t] = run_command_return(@, None)]
       \/ /\ threads' = [threads EXCEPT ![t] = run_command_raise(@, "ClientError")]
          /\ key_pairs' = {p \in key_pairs : p.KeyName # threads[t].user} \cup
                {[KeyName |-> threads[t].user, KeyMaterial |-> "ssh-rsa A"]}
    /\ UNCHANGED <<instances, volumes, modals, direct, config, chat, exchange>>

\* create_key_pair: ec2_client.import_key_pair(KeyName=user_name, ...); the
\* provider refuses a name it already holds (InvalidKeyPair.Duplicate)
create_key_pair_import(t) ==
    /\ Running(t, "create_key_pair", "import_key_pair")
    /\ \/ /\ KeysOf(threads[t].user) = {}
          /\ key_pairs' = key_pairs \cup
                {[KeyName |-> threads[t].user, KeyMaterial |-> threads[t].public_key]}
          /\ threads' = [threads EXCEPT ![t] = run_command_return(@, None)]
       \/ /\ threads' = [threads EXCEPT ![t] = run_command_raise(@, "ClientError")]
          /\ UNCHANGED key_pairs
    /\ UNCHANGED <<instances, volumes, modals, direct, config, chat, exchange>>

\* ec2_up that opens the launch modal without looking for the key
ec2_up_unguarded(user) ==
    /\ modals' = [modals EXCEPT ![user]["launch_instance"] = @ + 1]
    /\ UNCHANGED <<provider, threads, direct, config, chat>>

\* ------------------------------------------------------------ /ec2 up
\* handle_ec2_commands "up": describe_key_pairs(KeyNames=[user_name]) raises when
\* the user has no key pair; otherwise open_instance_launch_modal
ec2_up(user) ==
    /\ IF KeysOf(user) = {}
       THEN UNCHANGED modals   \* "Please upload your public key first with /ec2 key."
       ELSE views_open(user, "launch_instance")
    /\ UNCHANGED <<provider, threads, direct, config, chat>>

\* handle_interactions, callback_id == "launch_instance": volume is read once,
\* at submission, and its id (or None) is handed to the background unit
submit_launch_instance_of(user, ami_choice, instance_type, value, mount_option, startup_script) ==
    /\ Submitted(user, "launch_instance")
    /\ \E volume \in get_volume_for_user(user) :
          LET ami == config.amis[ami_choice]
          IN handle_aws_command(
               [NewThread("launch_ec2_instance", user, "run_instances",
                          Placeholder("EC2 instance {0} launched successfully."),
                          Placeholder("Error launching EC2 instance: {}"))
                EXCEPT !.instance_type = instance_type,
                       !.submitted = value,
                       !.root_ebs_size = IF value < max_volume_size
                                         THEN value ELSE max_volume_size,
                       !.mount_option = mount_option,
                       !.ami_user = ami.user,
                       \* ami.get("startup_script", "") + (startup_script or "")
                       !.startup_script =
                          Text(ami.startup_script.text \o startup_script.text),
                       !.volume_id = volume])
    /\ UNCHANGED <<provider, direct, config, chat>>

\* the same for the first image of the catalog and a startup field left empty
submit_launch_instance(user, instance_type, value, mount_option) ==
    submit_launch_instance_of(user, "ubuntu", instance_type, value, mount_option, NoText)

\* ------------------------------------------------------------ boot script
Line(s) == <<s, "\n">>

\* the first block of user_data_script
Preamble(ami_user) ==
    Line("#!/bin/bash") \o Line("set -v") \o Line("USER=" \o ami_user)
       \o Line("HOME=/home/$USER") \o Line("alias sudo='' if sudo is not available")

\* the block added for efs and efs_root, with the uid of the user
EfsFragment(uid) ==
    Line("# Install NFS client") \o Line("# Save authorized_key")
       \o Line("# Mount the EFS file system " \o uid) \o Line("# Restore authorized_key")

BindLine == Line("sudo bindfs --map=ubuntu/root -o nonempty /home/ubuntu /root")

\* the block added for ebs
EbsFragment ==
    Line("device=/dev/xvdh or /dev/nvme2n1 or /dev/nvme1n1")
       \o Line("# Format the EBS volume if necessary") \o Line("# Save authorized_key")
       \o Line("# Mount the EBS volume") \o Line("# Restore authorized_key")

\* a mount block that treats efs_root as efs
mount_fragment_efs_only(mount_option, uid) ==
    IF mount_option \in {"efs", "efs_root"} THEN EfsFragment(uid)
    ELSE IF mount_option = "ebs" THEN EbsFragment
    ELSE <<>>

\* launch_ec2_instance: if mount_option == "efs" or "efs_root": ... elif "ebs": ...
mount_fragment(mount_option, uid) ==
    IF mount_option \in {"efs", "efs_root"}
    THEN EfsFragment(uid) \o (IF mount_option = "efs_root" THEN BindLine ELSE <<>>)
    ELSE IF mount_option = "ebs" THEN EbsFragment
    ELSE <<>>

\* launch_ec2_instance: the script handed to run_instances as UserData
user_data_script(ami_user, user_name, startup_script, mount_option) ==
    Preamble(ami_user)
       \o mount_fragment(mount_option, "uid-" \o user_name)
       \o (IF ~startup_script.present THEN <<>>
           ELSE Line("cd $HOME")
                   \o Line("sudo su $USER -c 'bash -s' <<'UNLIKELY_STRING'")
                   \o startup_script.text \o <<"\n">>
                   \o <<"UNLIKELY_STRING">>)

\* the provider's run_instances: one new instance, pending, tagged User=user_name
run_instances(user_name, instance_type, root_ebs_size, user_data) ==
    Append(instances,
           [tags |-> get_tags_for_user(user_name), type |-> instance_type,
            root |-> root_ebs_size, state |-> "pending",
            ok |-> FALSE, everRunning |-> FALSE, everOk |-> FALSE,
            running_days |-> 0, user_data |-> user_data])

\* launch_ec2_instance that does not wait for the instance to run
launch_run_instances_unwaited(t) ==
    /\ Running(t, "launch_ec2_instance", "run_instances")
    /\ \/ /\ Len(instances) < MaxInstances
          /\ instances' = run_instances(threads[t].user, threads[t].instance_type,
                threads[t].root_ebs_size,
                user_data_script(threads[t].ami_user, threads[t].user,
                                 threads[t].startup_script, threads[t].mount_option))
          /\ threads' = [threads EXCEPT
                ![t].pc = IF threads[t].mount_option = "ebs"
                          THEN "attach_volume" ELSE "wait_status_ok",
                ![t].response = Len(instances) + 1]
       \/ /\ threads' = [threads EXCEPT ![t] = run_command_raise(@, "ClientError")]
          /\ UNCHANGED instances
    /\ UNCHANGED <<volumes, key_pairs, modals, direct, config, chat, exchange>>

\* launch_ec2_instance: ec2_client.run_instances(**params)
launch_run_instances(t) ==
    /\ Running(t, "launch_ec2_instance", "run_instances")
    /\ \/ /\ ~config.default_tags.present
          /\ threads' = [threads EXCEPT ![t] = run_command_raise(@, "AttributeError")]
          /\ UNCHANGED instances
       \/ /\ config.default_tags.present
          /\ Len(instances) < MaxInstances   \* else InstanceLimitExceeded
          /\ UniqueKeys(get_tags_for_user(threads[t].user))
          /\ threads[t].root_ebs_size >= 1
          /\ instances' = run_instances(threads[t].user, threads[t].instance_type,
                threads[t].root_ebs_size,
                user_data_script(threads[t].ami_user, threads[t].user,
                                 threads[t].startup_script, threads[t].mount_option))
          /\ threads' = [threads EXCEPT ![t].pc = "wait_running",
                                        ![t].response = Len(instances) + 1]
       \/ /\ config.default_tags.present
          /\ threads' = [threads EXCEPT ![t] = run_command_raise(@, "ClientError")]
          /\ UNCHANGED instances
    /\ UNCHANGED <<volumes, key_pairs, modals, direct, config, chat, exchange>>

\* launch_ec2_instance that forgets the volume
launch_after_running_no_attach(th) == "wait_status_ok"

\* what launch_ec2_instance does after the instance_running waiter returned
launch_after_running(th) ==
    IF th.mount_option = "ebs" THEN "attach_volume" ELSE "wait_status_ok"

\* launch_ec2_instance: waiter instance_running on the new instance
launch_wait_running(t) ==
    /\ Running(t, "launch_ec2_instance", "wait_running")
    /\ IF instances[threads[t].response].state = "running"
       THEN threads' = [threads EXCEPT ![t].pc = launch_after_running(threads[t])]
       ELSE threads' = [threads EXCEPT ![t] = run_command_raise(@, "WaiterError")]
    /\ UNCHANGED <<provider, modals, direct, config, chat, exchange>>

\* the provider's attach_volume(Device="/dev/sdh", InstanceId, VolumeId): TRUE when
\* the provider accepts the call
CanAttach(instance_id, volume_id) ==
    /\ volume_id \in DOMAIN volumes
    /\ instance_id \in DOMAIN instances
    /\ instances[instance_id].state \in {"running", "stopped"}
    /\ \/ volumes[volume_id].state = "available"
       \/ volumes[volume_id].state = "in-use" /\ volumes[volume_id].multi
    \* /dev/sdh of the instance is free
    /\ \A v \in DOMAIN volumes : instance_id \notin volumes[v].att

AttachVolume(instance_id, volume_id) ==
    [volumes EXCEPT ![volume_id].state = "in-use",
                    ![volume_id].att = @ \cup {instance_id}]

\* one attach_volume call of unit t, which goes on at `next`: a None volume id is
\* refused by the client before any request is sent (not a ClientError)
attach_call(t, instance_id, next) ==
    \/ /\ threads[t].volume_id = None
       /\ threads' = [threads EXCEPT ![t] = run_command_raise(@, "ParamValidationError")]
       /\ UNCHANGED volumes
    \/ /\ threads[t].volume_id # None
       /\ CanAttach(instance_id, threads[t].volume_id)
       /\ volumes' = AttachVolume(instance_id, threads[t].volume_id)
       /\ threads' = [threads EXCEPT ![t].pc = next]
    \/ /\ threads[t].volume_id # None
       /\ threads' = [threads EXCEPT ![t] = run_command_raise(@, "ClientError")]
       /\ UNCHANGED volumes

\* launch_ec2_instance: if mount_option == "ebs": ec2_client.attach_volume(...)
launch_attach_volume(t) ==
    /\ Running(t, "launch_ec2_instance", "attach_volume")
    /\ attach_call(t, threads[t].response, "wait_in_use")
    /\ UNCHANGED <<instances, key_pairs, modals, direct, config, chat, exchange>>

\* waiter volume_in_use of unit t, from pc to next
wait_in_use(t, next) ==
    IF volumes[threads[t].volume_id].state = "in-use"
    THEN threads' = [threads EXCEPT ![t].pc = next]
    ELSE threads' = [threads EXCEPT ![t] = run_command_raise(@, "WaiterError")]

launch_wait_in_use(t) ==
    /\ Running(t, "launch_ec2_instance", "wait_in_use")
    /\ wait_in_use(t, "wait_status_ok")
    /\ UNCHANGED <<provider, modals, direct, config, chat, exchange>>

\* launch_ec2_instance that returns without the instance_status_ok waiter
launch_return_unchecked(t) ==
    /\ Running(t, "launch_ec2_instance", "wait_status_ok")
    /\ threads' = [threads EXCEPT ![t] = run_command_return(@, threads[t].response)]
    /\ UNCHANGED <<provider, modals, direct, config, chat, exchange>>

\* launch_ec2_instance: waiter instance_status_ok, then return instance_id
launch_wait_status_ok(t) ==
    /\ Running(t, "launch_ec2_instance", "wait_status_ok")
    /\ IF /\ instances[threads[t].response].state = "running"
          /\ instances[threads[t].response].ok
       THEN threads' = [threads EXCEPT
                ![t] = run_command_return(@, threads[t].response)]
       ELSE threads' = [threads EXCEPT ![t] = run_command_raise(@, "WaiterError")]
    /\ UNCHANGED <<provider, modals, direct, config, chat, exchange>>

\* ------------------------------------------------------------ /ec2 down, stop, start
EligibleStates_any(command) == {"pending", "running", "stopping", "stopped"}

EligibleStates(command) ==
    CASE command = "stop" -> {"running"}
      [] command = "start" -> {"stopped"}
      [] command = "terminate" -> {"pending", "running", "stopping", "stopped"}

\* open_instance_operate_modal: no modal when the user has no eligible instance
open_instance_operate_modal(user, command) ==
    /\ IF get_instance_options(user, EligibleStates(command)) = {}
       THEN UNCHANGED modals   \* "No EC2 instances to {command}."
       ELSE views_open(user, command \o "_instance")
    /\ UNCHANGED <<provider, threads, direct, config, chat>>

\* the ids a user can have selected in a modal: instances carrying the user's tag
Selectable(user) == {i \in DOMAIN instances : HasTag(instances[i].tags, "User", user)}

SuccessText(command) ==
    CASE command = "terminate" -> "Terminated instances: {}"
      [] command = "stop" -> "Stopped instances: {}"
      [] command = "start" -> "Started instances: {}"

\* handle_interactions, callback_id in terminate_instance, stop_instance, start_instance
submit_operate_instance(user, command, selected_instances) ==
    /\ Submitted(user, command \o "_instance")
    /\ handle_aws_command(
         [NewThread(command \o "_ec2_instances", user, command \o "_instances",
                    Template(SuccessText(command), selected_instances),
                    Placeholder("Error " \o command \o "ing instances: {}"))
          EXCEPT !.instance_ids = selected_instances])
    /\ UNCHANGED <<provider, direct, config, chat>>

\* the provider's terminate_instances / stop_instances / start_instances
CanTerminate(ids) == ids \subseteq DOMAIN instances

TerminateInstances(ids) ==
    [i \in DOMAIN instances |->
        IF i \in ids /\ instances[i].state \notin {"shutting-down", "terminated"}
        THEN [instances[i] EXCEPT !.state = "shutting-down", !.ok = FALSE]
        ELSE instances[i]]

CanStop(ids) ==
    /\ ids \subseteq DOMAIN instances
    /\ \A i \in ids : instances[i].state \in {"running", "stopping", "stopped"}

StopInstances(ids) ==
    [i \in DOMAIN instances |->
        IF i \in ids /\ instances[i].state = "running"
        THEN [instances[i] EXCEPT !.state = "stopping", !.ok = FALSE]
        ELSE instances[i]]

CanStart(ids) ==
    /\ ids \subseteq DOMAIN instances
    /\ \A i \in ids : instances[i].state \in {"pending", "running", "stopped"}

StartInstances(ids) ==
    [i \in DOMAIN instances |->
        IF i \in ids /\ instances[i].state = "stopped"
        THEN [instances[i] EXCEPT !.state = "pending"]
        ELSE instances[i]]

\* one mutating instance call of unit t, which goes on at `next`
instance_call(t, accepted, after, next) ==
    \/ /\ accepted
       /\ instances' = after
       /\ threads' = [threads EXCEPT ![t].pc = next]
    \/ /\ threads' = [threads EXCEPT ![t] = run_command_raise(@, "ClientError")]
       /\ UNCHANGED instances

\* a waiter that is content with the first listed instance that arrives
AnyInState(ids, state) == \E i \in ids : instances[i].state = state

\* one instance waiter of unit t: every listed instance is in `state`
AllInState(ids, state) == \A i \in ids : instances[i].state = state

\* terminate_ec2_instances
terminate_instances_call(t) ==
    /\ Running(t, "terminate_ec2_instances", "terminate_instances")
    /\ instance_call(t, CanTerminate(threads[t].instance_ids),
                     TerminateInstances(threads[t].instance_ids), "wait_terminated")
    /\ UNCHANGED <<volumes, key_pairs, modals, direct, config, chat, exchange>>

terminate_wait(t) ==
    /\ Running(t, "terminate_ec2_instances", "wait_terminated")
    /\ IF AllInState(threads[t].instance_ids, "terminated")
       THEN threads' = [threads EXCEPT ![t] = run_command_return(@, None)]
       ELSE threads' = [threads EXCEPT ![t] = run_command_raise(@, "WaiterError")]
    /\ UNCHANGED <<provider, modals, direct, config, chat, exchange>>

\* stop_ec2_instances, also as called by change_instance_type
stop_instances_call(t) ==
    /\ t \in DOMAIN threads
    /\ threads[t].function \in {"stop_ec2_instances", "change_instance_type"}
    /\ threads[t].pc = "stop_instances"
    /\ instance_call(t, CanStop(threads[t].instance_ids),
                     StopInstances(threads[t].instance_ids), "wait_stopped")
    /\ UNCHANGED <<volumes, key_pairs, modals, direct, config, chat, exchange>>

stop_wait(t) ==
    /\ t \in DOMAIN threads
    /\ threads[t].function \in {"stop_ec2_instances", "change_instance_type"}
    /\ threads[t].pc = "wait_stopped"
    /\ IF AllInState(threads[t].instance_ids, "stopped")
       THEN IF threads[t].function = "change_instance_type"
            THEN threads' = [threads EXCEPT ![t].pc = "modify_instance_attribute"]
            ELSE threads' = [threads EXCEPT ![t] = run_command_return(@, None)]
       ELSE threads' = [threads EXCEPT ![t] = run_command_raise(@, "WaiterError")]
    /\ UNCHANGED <<provider, modals, direct, config, chat, exchange>>

\* start_ec2_instances, also as called by change_instance_type
start_instances_call(t) ==
    /\ t \in DOMAIN threads
    /\ threads[t].function \in {"start_ec2_instances", "change_instance_type"}
    /\ threads[t].pc = "start_instances"
    /\ instance_call(t, CanStart(threads[t].instance_ids),
                     StartInstances(threads[t].instance_ids), "wait_running")
    /\ UNCHANGED <<volumes, key_pairs, modals, direct, config, chat, exchange>>

start_wait(t) ==
    /\ t \in DOMAIN threads
    /\ threads[t].function \in {"start_ec2_instances", "change_instance_type"}
    /\ threads[t].pc = "wait_running"
    /\ IF AllInState(threads[t].instance_ids, "running")
       THEN threads' = [threads EXCEPT ![t] = run_command_return(@, None)]
       ELSE threads' = [threads EXCEPT ![t] = run_command_raise(@, "WaiterError")]
    /\ UNCHANGED <<provider, modals, direct, config, chat, exchange>>

\* ------------------------------------------------------------ /ec2 change
open_instance_change_modal(user) ==
    /\ IF get_instance_options(user, {"pending", "running"}) = {}
       THEN UNCHANGED modals   \* "No EC2 instances to change."
       ELSE views_open(user, "change_instance")
    /\ UNCHANGED <<provider, threads, direct, config, chat>>

\* the change_instance branch without its comparison of the two types
submit_change_instance_unchecked(user, instance_id, new_instance_type) ==
    /\ Submitted(user, "change_instance")
    /\ handle_aws_command(
         [NewThread("change_instance_type", user, "stop_instances",
                    Template("Changed instance {} to type {} successfully.",
                             <<instance_id, new_instance_type>>),
                    Placeholder("Error changing instance type: {}"))
          EXCEPT !.instance_ids = {instance_id},
                 !.instance_type = new_instance_type])
    /\ UNCHANGED <<provider, direct, config, chat>>

\* handle_interactions, callback_id == "change_instance"
submit_change_instance(user, instance_id, new_instance_type) ==
    /\ Submitted(user, "change_instance")
    /\ IF new_instance_type = get_instance_type(instance_id)
       THEN /\ direct' = [direct EXCEPT ![user] = Append(@,
                    [channel |-> user, text |-> "Instance {} is already of type {}.",
                     arg |-> <<instance_id, new_instance_type>>])]
            /\ UNCHANGED threads
       ELSE /\ handle_aws_command(
                 [NewThread("change_instance_type", user, "stop_instances",
                            Template("Changed instance {} to type {} successfully.",
                                     <<instance_id, new_instance_type>>),
                            Placeholder("Error changing instance type: {}"))
                  EXCEPT !.instance_ids = {instance_id},
                         !.instance_type = new_instance_type])
            /\ UNCHANGED direct
    /\ UNCHANGED <<provider, config, chat>>

\* the provider's modify_instance_attribute(Attribute="instanceType")
CanModifyType(instance_id) ==
    /\ instance_id \in DOMAIN instances
    /\ instances[instance_id].state = "stopped"

\* change_instance_type that restarts the instance without modifying it
change_without_modify(t) ==
    /\ Running(t, "change_instance_type", "modify_instance_attribute")
    /\ threads' = [threads EXCEPT ![t].pc = "start_instances"]
    /\ UNCHANGED <<provider, modals, direct, config, chat, exchange>>

\* change_instance_type that reports a refused modification and starts the
\* instance again all the same
change_modify_then_restart(t) ==
    /\ Running(t, "change_instance_type", "modify_instance_attribute")
    /\ LET instance_id == CHOOSE i \in threads[t].instance_ids : TRUE
       IN \/ /\ CanModifyType(instance_id)
             /\ instances' = [instances EXCEPT ![instance_id].type = threads[t].instance_type]
             /\ threads' = [threads EXCEPT ![t].pc = "start_instances"]
          \/ /\ threads' = [threads EXCEPT
                   ![t] = [chat_postMessage(@, Format(@.error_message, "ClientError"))
                           EXCEPT !.pc = "start_instances", !.raised = "ClientError"]]
             /\ UNCHANGED instances
    /\ UNCHANGED <<volumes, key_pairs, modals, direct, config, chat, exchange>>

\* change_instance_type: ec2_client.modify_instance_attribute(...)
change_modify_instance_attribute(t) ==
    /\ Running(t, "change_instance_type", "modify_instance_attribute")
    /\ LET instance_id == CHOOSE i \in threads[t].instance_ids : TRUE
       IN instance_call(t, CanModifyType(instance_id),
                        [instances EXCEPT ![instance_id].type = threads[t].instance_type],
                        "start_instances")
    /\ UNCHANGED <<volumes, key_pairs, modals, direct, config, chat, exchange>>

\* ------------------------------------------------------------ /ebs resize
\* a resize modal whose opening already starts the operation
open_volume_resize_modal_eager(user) ==
    /\ \E volume \in get_volume_for_user(user) :
          IF volume = None
          THEN UNCHANGED <<modals, threads>>
          ELSE /\ views_open(user, "resize_volume")
               /\ handle_aws_command(
                    [NewThread("resize_volume", user, "modify_volume",
                               Template("", 1), Placeholder("{}"))
                     EXCEPT !.size = 1, !.volume_id = volume])
    /\ UNCHANGED <<provider, direct, config, chat>>

\* handle_ebs_commands "resize": the volume guard, then open_volume_resize_modal
open_volume_resize_modal(user) ==
    /\ \E volume \in get_volume_for_user(user) :
          IF volume = None
          THEN UNCHANGED modals   \* "No EBS volume found. Please /ebs create first."
          ELSE views_open(user, "resize_volume")
    /\ UNCHANGED <<provider, threads, direct, config, chat>>

\* handle_interactions, callback_id == "resize_volume"
submit_resize_volume(user, value) ==
    /\ Submitted(user, "resize_volume")
    /\ LET volume_size == IF value < max_volume_size THEN value ELSE max_volume_size
       IN \E volume \in get_volume_for_user(user) :
             handle_aws_command(
               [NewThread("resize_volume", user, "modify_volume",
                          Template("EBS volume resized to {} GiB successfully. Remember to run resize2fs to resize the filesystem.",
                                   volume_size),
                          Placeholder("Error resizing EBS volume: {}"))
                EXCEPT !.submitted = value, !.size = volume_size, !.volume_id = volume])
    /\ UNCHANGED <<provider, direct, config, chat>>

\* the provider's modify_volume(VolumeId, Size): a volume can only grow, and a
\* modification in progress must finish first
CanModifyVolume(volume_id, size) ==
    /\ volume_id \in DOMAIN volumes
    /\ volumes[volume_id].state \in {"available", "in-use"}
    /\ volumes[volume_id].modification \notin {"modifying", "optimizing"}
    /\ size >= volumes[volume_id].size

\* resize_volume: ec2_client.modify_volume(VolumeId=volume_id, Size=size)
resize_modify_volume(t) ==
    /\ Running(t, "resize_volume", "modify_volume")
    /\ \/ /\ threads[t].volume_id = None
          /\ threads' = [threads EXCEPT
                ![t] = run_command_raise(@, "ParamValidationError")]
          /\ UNCHANGED volumes
       \/ /\ threads[t].volume_id # None
          /\ CanModifyVolume(threads[t].volume_id, threads[t].size)
          /\ volumes' = [volumes EXCEPT
                ![threads[t].volume_id].modification = "modifying",
                ![threads[t].volume_id].target = threads[t].size]
          /\ threads' = [threads EXCEPT ![t].pc = "describe_volumes_modifications"]
       \/ /\ threads[t].volume_id # None
          /\ threads' = [threads EXCEPT ![t] = run_command_raise(@, "ClientError")]
          /\ UNCHANGED volumes
    /\ UNCHANGED <<instances, key_pairs, modals, direct, config, chat, exchange>>

\* a poll loop that raises when its passes are used up
resize_poll_raising(t) ==
    /\ Running(t, "resize_volume", "describe_volumes_modifications")
    /\ \/ IF volumes[threads[t].volume_id].modification \in {"none", "completed"}
          THEN threads' = [threads EXCEPT
                  ![t] = run_command_return([@ EXCEPT !.polls = @ + 1], None)]
          ELSE IF threads[t].polls + 1 = range_60
               THEN threads' = [threads EXCEPT
                       ![t] = run_command_raise([@ EXCEPT !.polls = @ + 1], "TimeoutError")]
               ELSE threads' = [threads EXCEPT ![t].polls = @ + 1]
       \/ threads' = [threads EXCEPT ![t] = run_command_raise(@, "ClientError")]
    /\ UNCHANGED <<provider, modals, direct, config, chat, exchange>>

\* resize_volume: one pass of `for _ in range(60)`: the poll, the two breaks, the
\* sleep; the function returns None after a break and after the last pass
resize_poll(t) ==
    /\ Running(t, "resize_volume", "describe_volumes_modifications")
    /\ \/ IF \/ volumes[threads[t].volume_id].modification \in {"none", "completed"}
             \/ threads[t].polls + 1 = range_60
          THEN threads' = [threads EXCEPT
                  ![t] = run_command_return([@ EXCEPT !.polls = @ + 1], None)]
          ELSE threads' = [threads EXCEPT ![t].polls = @ + 1]
       \/ threads' = [threads EXCEPT ![t] = run_command_raise(@, "ClientError")]
    /\ UNCHANGED <<provider, modals, direct, config, chat, exchange>>

\* ------------------------------------------------------------ /ebs attach
\* handle_ebs_commands "attach": the volume guard, then open_volume_attach_modal
open_volume_attach_modal(user) ==
    /\ \E volume \in get_volume_for_user(user) :
          IF volume = None
          THEN UNCHANGED modals   \* "No EBS volume found. Please /ebs create first."
          ELSE IF get_instance_options(user, {"running"}) = {}
               THEN UNCHANGED modals   \* "No instances to attach to."
               ELSE views_open(user, "attach_volume")
    /\ UNCHANGED <<provider, threads, direct, config, chat>>

\* handle_interactions, callback_id == "attach_volume"
submit_attach_volume(user, instance_id) ==
    /\ Submitted(user, "attach_volume")
    /\ \E volume \in get_volume_for_user(user) :
          handle_aws_command(
            [NewThread("attach_volume", user, "attach_volume",
                       Template("EBS volume attached to instance {} successfully.",
                                instance_id),
                       Placeholder("Error attaching EBS volume: {}"))
             EXCEPT !.instance_ids = {instance_id}, !.volume_id = volume])
    /\ UNCHANGED <<provider, direct, config, chat>>

attach_volume_call(t) ==
    /\ Running(t, "attach_volume", "attach_volume")
    /\ attach_call(t, CHOOSE i \in threads[t].instance_ids : TRUE, "wait_in_use")
    /\ UNCHANGED <<instances, key_pairs, modals, direct, config, chat, exchange>>

attach_volume_wait(t) ==
    /\ Running(t, "attach_volume", "wait_in_use")
    /\ IF volumes[threads[t].volume_id].state = "in-use"
       THEN threads' = [threads EXCEPT ![t] = run_command_return(@, None)]
       ELSE threads' = [threads EXCEPT ![t] = run_command_raise(@, "WaiterError")]
    /\ UNCHANGED <<provider, modals, direct, config, chat, exchange>>

\* ------------------------------------------------------------ /ebs detach
\* detach_volume's for loop: the next attachment of the list, in list order
NextAttachment(th) ==
    CHOOSE i \in th.attachments \ th.detached :
        \A j \in th.attachments \ th.detached : i <= j

\* detach_volume that detaches attachments[0] only
detach_volume_pc_first_only(attachments, detached) ==
    IF attachments = {} \/ detached # {} THEN "wait_available" ELSE "detach_volume"

\* where detach_volume stands once `detached` of its attachments are done
detach_volume_pc(attachments, detached) ==
    IF attachments \ detached = {} THEN "wait_available" ELSE "detach_volume"

\* /ebs detach that schedules the unit of /ebs destroy please
ebs_detach_destroying(user) ==
    /\ \E volume \in get_volume_for_user(user) :
          IF volume = None
          THEN UNCHANGED threads
          ELSE handle_aws_command(
                 [NewThread("destroy_volume", user, "delete_volume",
                            Template("EBS volume destroyed successfully.", None),
                            Placeholder("Error destroying EBS volume: {}"))
                  EXCEPT !.volume_id = volume])
    /\ UNCHANGED <<provider, modals, direct, config, chat>>

\* handle_ebs_commands "detach": volume and its attachment list are read by the
\* handler and handed to the background unit
ebs_detach(user) ==
    /\ \E volume \in get_volume_for_user(user) :
          IF volume = None
          THEN UNCHANGED threads   \* "No EBS volume found. Please /ebs create first."
          ELSE handle_aws_command(
                 [NewThread("detach_volume", user,
                            detach_volume_pc(Attachments(volume), {}),
                            Template("EBS volume detached successfully.", None),
                            Placeholder("Error detaching EBS volume: {}"))
                  EXCEPT !.volume_id = volume, !.attachments = Attachments(volume)])
    /\ UNCHANGED <<provider, modals, direct, config, chat>>

\* the provider's detach_volume(VolumeId, InstanceId, Device, Force=False)
CanDetach(instance_id, volume_id) ==
    /\ volumes[volume_id].state = "in-use"
    /\ instance_id \in volumes[volume_id].att \ volumes[volume_id].detaching

\* detach_volume: one ec2_client.detach_volume call of the loop
detach_volume_call(t) ==
    /\ Running(t, "detach_volume", "detach_volume")
    /\ LET instance_id == NextAttachment(threads[t])
           detached == threads[t].detached \cup {instance_id}
       IN \/ /\ CanDetach(instance_id, threads[t].volume_id)
             /\ volumes' = [volumes EXCEPT
                    ![threads[t].volume_id].detaching = @ \cup {instance_id}]
             /\ threads' = [threads EXCEPT
                    ![t].detached = detached,
                    ![t].pc = detach_volume_pc(threads[t].attachments, detached)]
          \/ /\ threads' = [threads EXCEPT ![t] = run_command_raise(@, "ClientError")]
             /\ UNCHANGED volumes
    /\ UNCHANGED <<instances, key_pairs, modals, direct, config, chat, exchange>>

\* detach_volume: waiter volume_available
detach_volume_wait(t) ==
    /\ Running(t, "detach_volume", "wait_available")
    /\ IF volumes[threads[t].volume_id].state = "available"
       THEN threads' = [threads EXCEPT ![t] = run_command_return(@, None)]
       ELSE threads' = [threads EXCEPT ![t] = run_command_raise(@, "WaiterError")]
    /\ UNCHANGED <<provider, modals, direct, config, chat, exchange>>

\* ------------------------------------------------------------ /ebs destroy please
ebs_destroy_please(user) ==
    /\ \E volume \in get_volume_for_user(user) :
          IF volume = None
          THEN UNCHANGED threads   \* "No EBS volume found. Please /ebs create first."
          ELSE handle_aws_command(
                 [NewThread("destroy_volume", user, "delete_volume",
                            Template("EBS volume destroyed successfully.", None),
                            Placeholder("Error destroying EBS volume: {}"))
                  EXCEPT !.volume_id = volume])
    /\ UNCHANGED <<provider, modals, direct, config, chat>>

\* destroy_volume: ec2_client.delete_volume(VolumeId)
destroy_volume_call(t) ==
    /\ Running(t, "destroy_volume", "delete_volume")
    /\ \/ /\ volumes[threads[t].volume_id].state = "available"
          /\ volumes' = [volumes EXCEPT ![threads[t].volume_id].state = "deleting"]
          /\ threads' = [threads EXCEPT ![t].pc = "wait_deleted"]
       \/ /\ threads' = [threads EXCEPT ![t] = run_command_raise(@, "ClientError")]
          /\ UNCHANGED volumes
    /\ UNCHANGED <<instances, key_pairs, modals, direct, config, chat, exchange>>

\* destroy_volume: waiter volume_deleted
destroy_volume_wait(t) ==
    /\ Running(t, "destroy_volume", "wait_deleted")
    /\ IF volumes[threads[t].volume_id].state = "deleted"
       THEN threads' = [threads EXCEPT ![t] = run_command_return(@, None)]
       ELSE threads' = [threads EXCEPT ![t] = run_command_raise(@, "WaiterError")]
    /\ UNCHANGED <<provider, modals, direct, config, chat, exchange>>

\* ------------------------------------------------------------ scanner
\* get_all_user_ids: name -> id of the members that are neither bots nor deleted
get_all_user_ids ==
    LET listed == {m \in chat.members : ~m.is_bot /\ ~m.deleted}
    IN [name \in {m.name : m \in listed} |->
           (CHOOSE m \in listed : m.name = name).id]

\* next(tag["Value"] for tag in Tags if tag["Key"] == "User", None)
UserTag(tags) ==
    IF \E k \in DOMAIN tags : tags[k].Key = "User"
    THEN tags[CHOOSE k \in DOMAIN tags :
                 /\ tags[k].Key = "User"
                 /\ \A j \in DOMAIN tags : tags[j].Key = "User" => k <= j].Value
    ELSE "None"

\* get_running_instance_details: one record per instance in state running; a
\* type the catalog does not list costs large_instance_cost_threshold
instance_detail(i) ==
    [instance_id |-> i,
     instance_type |-> instances[i].type,
     instance_cost |-> IF instances[i].type \in DOMAIN config.instance_types
                       THEN config.instance_types[instances[i].type]
                       ELSE config.large_instance_cost_threshold,
     user_name |-> UserTag(instances[i].tags),
     running_days |-> instances[i].running_days]

RECURSIVE get_running_instance_details(_)
get_running_instance_details(n) ==
    IF n = 0 THEN <<>>
    ELSE get_running_instance_details(n - 1) \o
         (IF instances[n].state = "running" THEN <<instance_detail(n)>> ELSE <<>>)

\* the condition under which the loop body calls send_warning
warning_due(instance, user_ids) ==
    /\ instance.user_name \in DOMAIN user_ids
    /\ \/ instance.running_days >= config.instance_warning_days
       \/ /\ instance.instance_cost >= config.large_instance_cost_threshold
          /\ instance.running_days >= config.large_instance_warning_days

\* send_warning: chat_postMessage(channel=user_id, text="Warning: Your instance ...")
send_warning(user_id, instance_id, instance_type, running_days) ==
    [channel |-> user_id, instance_id |-> instance_id,
     instance_type |-> instance_type, running_days |-> running_days]

\* a loop that stops at the first warning it sent
RECURSIVE warnings_first_only(_, _)
warnings_first_only(details, user_ids) ==
    IF details = <<>> THEN <<>>
    ELSE LET instance == Head(details)
         IN IF warning_due(instance, user_ids)
            THEN <<send_warning(user_ids[instance.user_name], instance.instance_id,
                                instance.instance_type, instance.running_days)>>
            ELSE warnings_first_only(Tail(details), user_ids)

\* the for loop of periodically_check_instances over instance_details
RECURSIVE warnings(_, _)
warnings(details, user_ids) ==
    IF details = <<>> THEN <<>>
    ELSE LET instance == Head(details)
         IN (IF warning_due(instance, user_ids)
             THEN <<send_warning(user_ids[instance.user_name], instance.instance_id,
                                 instance.instance_type, instance.running_days)>>
             ELSE <<>>) \o warnings(Tail(details), user_ids)

\* InstanceChecker.periodically_check_instances: one pass
periodically_check_instances ==
    /\ chat.passes < MaxPasses
    /\ chat' = [chat EXCEPT
                  !.posted = @ \o warnings(get_running_instance_details(Len(instances)),
                                           get_all_user_ids),
                  !.passes = @ + 1]
    /\ UNCHANGED <<provider, threads, modals, direct, config, exchange>>

\* datetime.now() - LaunchTime grows by a day for every instance
DayPasses ==
    /\ \A i \in DOMAIN instances : instances[i].running_days < MaxDays
    /\ instances' = [i \in DOMAIN instances |->
                        [instances[i] EXCEPT !.running_days = @ + 1]]
    /\ UNCHANGED <<volumes, key_pairs, threads, modals, direct, config, exchange, chat>>

\* start_periodic_checks: threading.Thread(target=run_checks, daemon=True).start()
start_periodic_checks ==
    /\ \A t \in DOMAIN threads : threads[t].function # "run_checks"
    /\ threads' = Append(threads,
          [NewThread("run_checks", "-", "periodically_check_instances",
                     Template("", None), Template("", None))
           EXCEPT !.unit = "daemon"])
    /\ UNCHANGED <<provider, modals, direct, config, chat, exchange>>

\* run_checks, the call of periodically_check_instances in `while True`: a
\* SlackApiError of users_list is logged and leaves no user ids, a SlackApiError
\* of chat_postMessage is logged by send_warning, and a ClientError of
\* describe_instances is caught nowhere and ends the thread. The platform's log
\* and its pass counter record the first MaxPasses passes.
run_checks_pass(t) ==
    /\ Running(t, "run_checks", "periodically_check_instances")
    /\ \/ \E user_ids \in {get_all_user_ids, <<>>}, delivered \in BOOLEAN :
             /\ chat' = IF chat.passes < MaxPasses
                        THEN [chat EXCEPT
                                !.posted = @ \o
                                   (IF delivered
                                    THEN warnings(get_running_instance_details(Len(instances)),
                                                  user_ids)
                                    ELSE <<>>),
                                !.passes = @ + 1]
                        ELSE chat
             /\ threads' = [threads EXCEPT ![t].pc = "sleep"]
       \/ /\ threads' = [threads EXCEPT ![t].pc = "lost", ![t].raised = "ClientError"]
          /\ UNCHANGED chat
    /\ UNCHANGED <<provider, modals, direct, config, exchange>>

\* run_checks: time.sleep(interval) returns and the loop goes round
run_checks_sleep(t) ==
    /\ Running(t, "run_checks", "sleep")
    /\ threads' = [threads EXCEPT ![t].pc = "periodically_check_instances"]
    /\ UNCHANGED <<provider, modals, direct, config, chat, exchange>>

\* ------------------------------------------------------------ other callbacks
\* callback ids of view_submission payloads that no branch of handle_interactions
\* names
OtherCallbackIds == {"detach_volume", "unknown"}

\* a last branch that falls through to handle_aws_command
submit_unhandled_scheduling(user, callback_id) ==
    /\ handle_aws_command(
         NewThread(callback_id, user, "done", Template("", None), Placeholder("{}")))
    /\ UNCHANGED <<provider, modals, direct, config, chat>>

\* handle_interactions, else: logging.warning("Unhandled callback_id"), return
submit_unhandled(user, callback_id) ==
    /\ callback_id \notin CallbackIds
    /\ UNCHANGED <<provider, threads, modals, direct, config, chat>>

\* ------------------------------------------------------------ src/app.py
\* The single-file server that came before the handler classes. Each of its
\* handle_* functions wraps its provider calls in try / except ClientError and
\* posts the outcome itself, as run_command does: the same two operators record
\* its return and its exception.

\* the modals of src/app.py and the mount options of its launch modal
LegacyCallbackIds ==
    {"submit_key", "launch_instance", "terminate_instance", "create_volume",
     "resize_volume", "attach_volume"}
LegacyMountOptions == {"none", "efs", "ebs"}

\* a handler that hands the call to a thread of its own
legacy_call_threaded(th) == threads' = Append(threads, th)

\* handle_x(...): a plain call, run by the request thread, which answers the
\* webhook only after the function has returned
legacy_call(th) == threads' = Append(threads, [th EXCEPT !.unit = "request"])

\* threading.Thread(target=handle_x, args=...).start()
legacy_thread_start(th) == threads' = Append(threads, th)

\* handle_interactions(payload) of src/app.py: one branch per callback id
legacy_handle_interactions(user, callback_id) ==
    /\ Submitted(user, callback_id)
    /\ \/ /\ callback_id = "submit_key"
          /\ \E public_key \in PublicKeys :
                legacy_call(
                  [NewThread("handle_key_submission", user, "delete_key_pair",
                             Template("Public key has been updated successfully.", None),
                             Placeholder("Failed to store public key: {}"))
                   EXCEPT !.public_key = public_key])
       \/ /\ callback_id = "launch_instance"
          /\ \E instance_type \in InstanceTypes, mount_option \in LegacyMountOptions :
                legacy_thread_start(
                  [NewThread("handle_instance_launch", user, "describe_volumes",
                             Placeholder("EC2 instance {} launched successfully."),
                             Placeholder("Error launching EC2 instance: {}"))
                   EXCEPT !.instance_type = instance_type,
                          !.mount_option = mount_option])
       \/ /\ callback_id = "terminate_instance"
          /\ \E selected_instances \in SUBSET DOMAIN instances :
                legacy_thread_start(
                  [NewThread("handle_instance_termination", user, "terminate_instances",
                             Template("Terminated instances: {}", selected_instances),
                             Placeholder("Error terminating instances: {}"))
                   EXCEPT !.instance_ids = selected_instances])
       \/ /\ callback_id = "create_volume"
          /\ \E value \in SubmittedSizes :
                LET volume_size == IF value < max_volume_size
                                   THEN value ELSE max_volume_size
                IN legacy_thread_start(
                     [NewThread("handle_volume_creation", user, "create_volume",
                                Template("EBS volume of {} GiB created successfully.",
                                         volume_size),
                                Placeholder("Error creating EBS volume: {}"))
                      EXCEPT !.submitted = value, !.size = volume_size])
       \/ /\ callback_id = "resize_volume"
          /\ IF VolumesOf(user) = {}
             THEN UNCHANGED threads   \* ["Volumes"][0]: IndexError
             ELSE \E volume \in VolumesOf(user), value \in SubmittedSizes :
                     LET volume_size == IF value < max_volume_size
                                        THEN value ELSE max_volume_size
                     IN legacy_call(
                          [NewThread("handle_volume_resizing", user, "modify_volume",
                                     Template("EBS volume resized to {} GiB successfully. Remember to run resize2fs to resize the filesystem.",
                                              volume_size),
                                     Placeholder("Error resizing EBS volume: {}"))
                           EXCEPT !.submitted = value, !.size = volume_size,
                                  !.volume_id = volume])
       \/ /\ callback_id = "attach_volume"
          /\ IF VolumesOf(user) = {}
             THEN UNCHANGED threads   \* ["Volumes"][0]: IndexError
             ELSE \E volume \in VolumesOf(user), instance_id \in DOMAIN instances :
                     legacy_call(
                       [NewThread("handle_volume_attachment", user, "attach_volume",
                                  Template("EBS volume attached successfully.", None),
                                  Placeholder("Error attaching EBS volume: {}"))
                        EXCEPT !.instance_ids = {instance_id}, !.volume_id = volume])
    /\ UNCHANGED <<provider, direct, config, chat, exchange>>

\* handle_key_submission: delete_key_pair(KeyName=user_id), its ClientError
\* swallowed
legacy_key_delete(t) ==
    /\ Running(t, "handle_key_submission", "delete_key_pair")
    /\ \/ key_pairs' = {p \in key_pairs : p.KeyName # "U-" \o threads[t].user}
       \/ UNCHANGED key_pairs
    /\ threads' = [threads EXCEPT ![t].pc = "import_key_pair"]
    /\ UNCHANGED <<instances, volumes, modals, direct, config, chat, exchange>>

\* handle_key_submission: import_key_pair(KeyName=user_id, ...), then the message
legacy_key_import(t) ==
    /\ Running(t, "handle_key_submission", "import_key_pair")
    /\ \/ /\ KeysOf("U-" \o threads[t].user) = {}
          /\ key_pairs' = key_pairs \cup
                {[KeyName |-> "U-" \o threads[t].user,
                  KeyMaterial |-> threads[t].public_key]}
          /\ threads' = [threads EXCEPT ![t] = run_command_return(@, None)]
       \/ /\ threads' = [threads EXCEPT ![t] = run_command_raise(@, "ClientError")]
          /\ UNCHANGED key_pairs
    /\ UNCHANGED <<instances, volumes, modals, direct, config, chat, exchange>>

\* handle_instance_launch: describe_volumes outside the try, Volumes[0] or None
legacy_launch_describe_volumes(t) ==
    /\ Running(t, "handle_instance_launch", "describe_volumes")
    /\ \/ \E volume \in get_volume_for_user(threads[t].user) :
             threads' = [threads EXCEPT ![t].pc = "run_instances",
                                        ![t].volume_id = volume]
       \/ threads' = [threads EXCEPT ![t].pc = "lost", ![t].raised = "ClientError"]
    /\ UNCHANGED <<provider, modals, direct, config, chat, exchange>>

\* launch_ec2_instance of src/ec2.py: run_instances, tagged User=key_name
legacy_launch_run_instances(t) ==
    /\ Running(t, "handle_instance_launch", "run_instances")
    /\ \/ /\ Len(instances) < MaxInstances   \* else InstanceLimitExceeded
          /\ instances' = Append(instances,
                [tags |-> <<[Key |-> "User", Value |-> threads[t].user]>>,
                 type |-> threads[t].instance_type, root |-> 1, state |-> "pending",
                 ok |-> FALSE, everRunning |-> FALSE, everOk |-> FALSE,
                 running_days |-> 0, user_data |-> <<>>])
          /\ threads' = [threads EXCEPT ![t].pc = "wait_running",
                                        ![t].response = Len(instances) + 1]
       \/ /\ threads' = [threads EXCEPT ![t] = run_command_raise(@, "ClientError")]
          /\ UNCHANGED instances
    /\ UNCHANGED <<volumes, key_pairs, modals, direct, config, chat, exchange>>

\* launch_ec2_instance of src/ec2.py: waiter instance_running; without the ebs
\* option the function returns here
legacy_launch_wait_running(t) ==
    /\ Running(t, "handle_instance_launch", "wait_running")
    /\ IF instances[threads[t].response].state # "running"
       THEN threads' = [threads EXCEPT ![t] = run_command_raise(@, "WaiterError")]
       ELSE IF threads[t].mount_option = "ebs"
            THEN threads' = [threads EXCEPT ![t].pc = "attach_volume"]
            ELSE threads' = [threads EXCEPT
                    ![t] = run_command_return(@, threads[t].response)]
    /\ UNCHANGED <<provider, modals, direct, config, chat, exchange>>

\* launch_ec2_instance of src/ec2.py: attach_volume, then return instance_id
legacy_launch_attach_volume(t) ==
    /\ Running(t, "handle_instance_launch", "attach_volume")
    /\ \/ /\ threads[t].volume_id = None
          /\ threads' = [threads EXCEPT
                ![t] = run_command_raise(@, "ParamValidationError")]
          /\ UNCHANGED volumes
       \/ /\ threads[t].volume_id # None
          /\ CanAttach(threads[t].response, threads[t].volume_id)
          /\ volumes' = AttachVolume(threads[t].response, threads[t].volume_id)
          /\ threads' = [threads EXCEPT
                ![t] = run_command_return(@, threads[t].response)]
       \/ /\ threads[t].volume_id # None
          /\ threads' = [threads EXCEPT ![t] = run_command_raise(@, "ClientError")]
          /\ UNCHANGED volumes
    /\ UNCHANGED <<instances, key_pairs, modals, direct, config, chat, exchange>>

\* handle_instance_termination: terminate_instances
legacy_terminate_call(t) ==
    /\ Running(t, "handle_instance_termination", "terminate_instances")
    /\ instance_call(t, CanTerminate(threads[t].instance_ids),
                     TerminateInstances(threads[t].instance_ids), "wait_terminated")
    /\ UNCHANGED <<volumes, key_pairs, modals, direct, config, chat, exchange>>

\* handle_instance_termination: waiter instance_terminated, then the message
legacy_terminate_wait(t) ==
    /\ Running(t, "handle_instance_termination", "wait_terminated")
    /\ IF AllInState(threads[t].instance_ids, "terminated")
       THEN threads' = [threads EXCEPT ![t] = run_command_return(@, None)]
       ELSE threads' = [threads EXCEPT ![t] = run_command_raise(@, "WaiterError")]
    /\ UNCHANGED <<provider, modals, direct, config, chat, exchange>>

\* handle_volume_creation: create_volume(Size, Tags=[User=user_name], gp2)
legacy_create_volume_call(t) ==
    /\ Running(t, "handle_volume_creation", "create_volume")
    /\ \/ /\ Len(volumes) < MaxVolumes   \* else VolumeLimitExceeded
          /\ threads[t].size >= 1
          /\ volumes' = Append(volumes,
                [tags |-> <<[Key |-> "User", Value |-> threads[t].user]>>,
                 size |-> threads[t].size,
                 state |-> "creating", multi |-> FALSE, att |-> {}, detaching |-> {},
                 modification |-> "none", target |-> threads[t].size])
          /\ threads' = [threads EXCEPT ![t].pc = "wait_available",
                                        ![t].volume_id = Len(volumes) + 1]
       \/ /\ threads' = [threads EXCEPT ![t] = run_command_raise(@, "ClientError")]
          /\ UNCHANGED volumes
    /\ UNCHANGED <<instances, key_pairs, modals, direct, config, chat, exchange>>

\* the waiter volume_available of handle_volume_creation and
\* handle_volume_resizing, then the message
legacy_wait_available(t) ==
    /\ t \in DOMAIN threads
    /\ threads[t].function \in {"handle_volume_creation", "handle_volume_resizing"}
    /\ threads[t].pc = "wait_available"
    /\ IF volumes[threads[t].volume_id].state = "available"
       THEN threads' = [threads EXCEPT ![t] = run_command_return(@, None)]
       ELSE threads' = [threads EXCEPT ![t] = run_command_raise(@, "WaiterError")]
    /\ UNCHANGED <<provider, modals, direct, config, chat, exchange>>

\* handle_volume_resizing: modify_volume(VolumeId=volume_id, Size=size)
legacy_resize_modify_volume(t) ==
    /\ Running(t, "handle_volume_resizing", "modify_volume")
    /\ \/ /\ CanModifyVolume(threads[t].volume_id, threads[t].size)
          /\ volumes' = [volumes EXCEPT
                ![threads[t].volume_id].modification = "modifying",
                ![threads[t].volume_id].target = threads[t].size]
          /\ threads' = [threads EXCEPT ![t].pc = "wait_available"]
       \/ /\ threads' = [threads EXCEPT ![t] = run_command_raise(@, "ClientError")]
          /\ UNCHANGED volumes
    /\ UNCHANGED <<instances, key_pairs, modals, direct, config, chat, exchange>>

\* handle_volume_attachment: attach_volume(Device="/dev/sdh", ...)
legacy_attach_call(t) ==
    /\ Running(t, "handle_volume_attachment", "attach_volume")
    /\ attach_call(t, CHOOSE i \in threads[t].instance_ids : TRUE, "wait_in_use")
    /\ UNCHANGED <<instances, key_pairs, modals, direct, config, chat, exchange>>

\* handle_volume_attachment: waiter volume_in_use, then the message
legacy_attach_wait(t) ==
    /\ Running(t, "handle_volume_attachment", "wait_in_use")
    /\ IF volumes[threads[t].volume_id].state = "in-use"
       THEN threads' = [threads EXCEPT ![t] = run_command_return(@, None)]
       ELSE threads' = [threads EXCEPT ![t] = run_command_raise(@, "WaiterError")]
    /\ UNCHANGED <<provider, modals, direct, config, chat, exchange>>

\* ------------------------------------------------------------ slash commands
\* The text of a command is the sequence of its words: text.split() is the text
\* itself, and sub_command == "destroy please" compares all of it.
Exchange(user, command, text, reply) ==
    exchange' = [user |-> user, command |-> command, text |-> text, reply |-> reply]

\* jsonify(response_type="ephemeral", text=...) of a handler that does nothing else
ReplyOnly(user, command, text, reply) ==
    /\ Exchange(user, command, text, reply)
    /\ UNCHANGED <<provider, threads, modals, direct, config, chat>>

NoVolumeFound == "No EBS volume found. Please /ebs create first."

\* handle_ec2_commands
handle_ec2_commands(sub_command, user) ==
    IF sub_command = <<"key">>
    THEN ec2_key(user) /\ Exchange(user, "/ec2", sub_command, "200")
    ELSE IF sub_command = <<"up">>
    THEN /\ ec2_up(user)
         /\ Exchange(user, "/ec2", sub_command,
                     IF KeysOf(user) = {}
                     THEN "Please upload your public key first with /ec2 key."
                     ELSE "200")
    ELSE IF sub_command \in {<<"down">>, <<"start">>, <<"stop">>}
    THEN LET command == IF sub_command = <<"down">> THEN "terminate" ELSE sub_command[1]
         IN /\ open_instance_operate_modal(user, command)
            /\ Exchange(user, "/ec2", sub_command,
                        IF get_instance_options(user, EligibleStates(command)) = {}
                        THEN "No EC2 instances to " \o command \o "."
                        ELSE "200")
    ELSE IF sub_command = <<"change">>
    THEN /\ open_instance_change_modal(user)
         /\ Exchange(user, "/ec2", sub_command,
                     IF get_instance_options(user, {"pending", "running"}) = {}
                     THEN "No EC2 instances to change."
                     ELSE "200")
    ELSE ReplyOnly(user, "/ec2", sub_command,
                   "Command must be one of: key, up, down, change, stop, start.")

\* a list of verbs that takes one word more as known
EbsVerbs_wider == {"create", "resize", "attach", "detach", "destroy", "format"}

\* the first words handle_ebs_commands accepts
EbsVerbs == {"create", "resize", "attach", "detach", "destroy"}

\* handle_ebs_commands; sub_command.split()[0] of an empty text raises IndexError,
\* and a text that no branch takes ends at `assert False`
handle_ebs_commands(sub_command, user) ==
    IF sub_command = <<>>
    THEN ReplyOnly(user, "/ebs", sub_command, "IndexError")
    ELSE IF sub_command[1] \notin EbsVerbs
    THEN ReplyOnly(user, "/ebs", sub_command,
                   "Command must be one of: create, resize, attach, detach or destroy.")
    ELSE IF sub_command = <<"create">>
    THEN /\ open_volume_create_modal(user)
         /\ Exchange(user, "/ebs", sub_command,
                     IF VolumesOf(user) # {}
                     THEN "EBS volume already exists, please /ebs destroy first."
                     ELSE "200")
    ELSE IF VolumesOf(user) = {}
    THEN ReplyOnly(user, "/ebs", sub_command, NoVolumeFound)
    ELSE IF sub_command = <<"resize">>
    THEN open_volume_resize_modal(user) /\ Exchange(user, "/ebs", sub_command, "200")
    ELSE IF sub_command = <<"attach">>
    THEN /\ open_volume_attach_modal(user)
         /\ Exchange(user, "/ebs", sub_command,
                     IF get_instance_options(user, {"running"}) = {}
                     THEN "No instances to attach to."
                     ELSE "200")
    ELSE IF sub_command = <<"detach">>
    THEN ebs_detach(user) /\ Exchange(user, "/ebs", sub_command, "Detaching EBS volume...")
    ELSE IF sub_command = <<"destroy">>
    THEN ReplyOnly(user, "/ebs", sub_command,
                   "If you are sure you want to destroy the EBS volume, please type: /ebs destroy please.")
    ELSE IF sub_command = <<"destroy", "please">>
    THEN /\ ebs_destroy_please(user)
         /\ Exchange(user, "/ebs", sub_command, "Destroying EBS volume...")
    ELSE ReplyOnly(user, "/ebs", sub_command, "AssertionError")

\* handle_commands, with EC2_SLACKBOT_STAGE unset
handle_commands(command, text, user) ==
    IF command = "/ec2" THEN handle_ec2_commands(text, user)
    ELSE IF command = "/ebs" THEN handle_ebs_commands(text, user)
    ELSE ReplyOnly(user, command, text, "Command not recognized.")

\* handle_events: a view_submission is handed to handle_interactions and answered
\* with Response(status=200)
handle_events(user, callback_id) ==
    Exchange(user, "view_submission", <<callback_id>>, "200")

\* ------------------------------------------------------------ web server
\* A request the server has received and not yet answered is held in `exchange`
\* with what it carries: its path (the segments after each "/"), whether its
\* signature is valid, its content type, and the form data.
Received(path, signed, content_type, user, command, text) ==
    /\ exchange.reply # "received"
    /\ exchange' = [user |-> user, command |-> command, text |-> text,
                    reply |-> "received", path |-> path, signed |-> signed,
                    content_type |-> content_type]
    /\ UNCHANGED <<provider, threads, modals, direct, config, chat>>

InFlight == exchange.reply = "received"

\* request.path.startswith("/slack/")
UnderSlack(path) == Len(path) >= 2 /\ path[1] = "slack"

\* a before_request hook that looks at /slack/commands alone
verify_slack_signature_commands_only(request) ==
    request.path = <<"slack", "commands">> /\ ~request.signed

\* verify_slack_signature, TRUE when it aborts: the path is under /slack/ and
\* verifier.is_valid_request(body, headers) is false
verify_slack_signature(request) == UnderSlack(request.path) /\ ~request.signed

\* abort(Response(response="Invalid Slack signature", status=400))
abort_invalid_signature ==
    /\ InFlight
    /\ verify_slack_signature(exchange)
    /\ exchange' = [exchange EXCEPT !.reply = "Invalid Slack signature"]
    /\ UNCHANGED <<provider, threads, modals, direct, config, chat>>

\* the route /slack/commands
slack_commands ==
    /\ InFlight
    /\ ~verify_slack_signature(exchange)
    /\ exchange.path = <<"slack", "commands">>
    /\ handle_commands(exchange.command, exchange.text, exchange.user)

\* the route /slack/events: get_request_data, then handle_events, which hands a
\* view_submission to handle_interactions
slack_events ==
    /\ InFlight
    /\ ~verify_slack_signature(exchange)
    /\ exchange.path = <<"slack", "events">>
    /\ IF exchange.content_type \notin {"application/json",
                                        "application/x-www-form-urlencoded"}
       THEN ReplyOnly(exchange.user, exchange.command, exchange.text,
                      "Unsupported Media Type")
       ELSE /\ handle_events(exchange.user, exchange.text[1])
            /\ \/ /\ exchange.text = <<"create_volume">>
                  /\ \E s \in SubmittedSizes : submit_create_volume(exchange.user, s)
               \/ /\ exchange.text = <<"submit_key">>
                  /\ \E k \in PublicKeys : submit_key(exchange.user, k)

\* the route /healthz of create_web_server
healthz ==
    /\ InFlight
    /\ ~verify_slack_signature(exchange)
    /\ exchange.path = <<"healthz">>
    /\ ReplyOnly(exchange.user, exchange.command, exchange.text, "ok")

\* any other path: no route matches
not_found ==
    /\ InFlight
    /\ ~verify_slack_signature(exchange)
    /\ exchange.path \notin {<<"slack", "commands">>, <<"slack", "events">>, <<"healthz">>}
    /\ ReplyOnly(exchange.user, exchange.command, exchange.text, "Not Found")

\* ------------------------------------------------------------ provider
\* The provider completes what a call started, in its own time.
ProviderInstanceRunning(i) ==
    /\ i \in DOMAIN instances
    /\ instances[i].state = "pending"
    /\ instances' = [instances EXCEPT ![i].state = "running", ![i].everRunning = TRUE]
    /\ UNCHANGED <<volumes, threads, key_pairs, modals, direct, config, chat, exchange>>

ProviderInstanceStatusOk(i) ==
    /\ i \in DOMAIN instances
    /\ instances[i].state = "running"
    /\ ~instances[i].ok
    /\ instances' = [instances EXCEPT ![i].ok = TRUE, ![i].everOk = TRUE]
    /\ UNCHANGED <<volumes, threads, key_pairs, modals, direct, config, chat, exchange>>

ProviderInstanceStopped(i) ==
    /\ i \in DOMAIN instances
    /\ instances[i].state = "stopping"
    /\ instances' = [instances EXCEPT ![i].state = "stopped"]
    /\ UNCHANGED <<volumes, threads, key_pairs, modals, direct, config, chat, exchange>>

\* the attachment of instance i to each volume is gone
Detached(i) ==
    [v \in DOMAIN volumes |->
        IF i \in volumes[v].att
        THEN [volumes[v] EXCEPT
                !.att = @ \ {i}, !.detaching = @ \ {i},
                !.state = IF volumes[v].att \ {i} = {} THEN "available" ELSE "in-use"]
        ELSE volumes[v]]

\* a terminated instance lets go of its volumes
ProviderInstanceTerminated(i) ==
    /\ i \in DOMAIN instances
    /\ instances[i].state = "shutting-down"
    /\ instances' = [instances EXCEPT ![i].state = "terminated"]
    /\ volumes' = Detached(i)
    /\ UNCHANGED <<threads, key_pairs, modals, direct, config, chat, exchange>>

ProviderVolumeAvailable(v) ==
    /\ v \in DOMAIN volumes
    /\ volumes[v].state = "creating"
    /\ volumes' = [volumes EXCEPT ![v].state = "available"]
    /\ UNCHANGED <<instances, threads, key_pairs, modals, direct, config, chat, exchange>>

ProviderVolumeDetached(v) ==
    /\ v \in DOMAIN volumes
    /\ \E i \in volumes[v].detaching :
          volumes' = [volumes EXCEPT
             ![v].att = @ \ {i}, ![v].detaching = @ \ {i},
             ![v].state = IF volumes[v].att \ {i} = {} THEN "available" ELSE "in-use"]
    /\ UNCHANGED <<instances, threads, key_pairs, modals, direct, config, chat, exchange>>

\* a modification goes modifying, optimizing (the new size is in effect),
\* completed; or it fails
ProviderVolumeModified(v) ==
    /\ v \in DOMAIN volumes
    /\ volumes[v].modification = "modifying"
    /\ \/ volumes' = [volumes EXCEPT ![v].modification = "optimizing",
                                     ![v].size = volumes[v].target]
       \/ volumes' = [volumes EXCEPT ![v].modification = "failed"]
    /\ UNCHANGED <<instances, threads, key_pairs, modals, direct, config, chat, exchange>>

ProviderVolumeOptimized(v) ==
    /\ v \in DOMAIN volumes
    /\ volumes[v].modification = "optimizing"
    /\ volumes' = [volumes EXCEPT ![v].modification = "completed"]
    /\ UNCHANGED <<instances, threads, key_pairs, modals, direct, config, chat, exchange>>

ProviderVolumeDeleted(v) ==
    /\ v \in DOMAIN volumes
    /\ volumes[v].state = "deleting"
    /\ volumes' = [volumes EXCEPT ![v].state = "deleted"]
    /\ UNCHANGED <<instances, threads, key_pairs, modals, direct, config, chat, exchange>>

\* ------------------------------------------------------------ specification
\* The dispatcher keeps no state of its own; what exists at the provider when the
\* server starts is whatever earlier runs left there.
RunningInstance(user, type) ==
    [tags |-> <<[Key |-> "User", Value |-> user]>>, type |-> type, root |-> 1,
     state |-> "running",
     ok |-> TRUE, everRunning |-> TRUE, everOk |-> TRUE, running_days |-> 0,
     user_data |-> <<>>]

Volume(user, multi, att) ==
    [tags |-> <<[Key |-> "User", Value |-> user]>>, size |-> 1,
     state |-> IF att = {} THEN "available" ELSE "in-use",
     multi |-> multi, att |-> att, detaching |-> {},
     modification |-> "none", target |-> 1]

\* the configuration file: default_tags (when present), the images with their
\* user and (when present) startup script, the instance-type catalog with its
\* hourly costs, and the thresholds of the scanner
Config(default_tags) ==
    [default_tags |-> default_tags,
     amis |-> [ubuntu |-> [user |-> "ubuntu", startup_script |-> NoText],
               conda |-> [user |-> "ec2-user",
                          startup_script |-> Text(<<"conda init">>)]],
     instance_types |-> [ty \in InstanceTypes |-> IF ty = "t1" THEN 1 ELSE 3],
     instance_warning_days |-> 2,
     large_instance_cost_threshold |-> 2,
     large_instance_warning_days |-> 1]

\* a member of users_list, and the chat platform with no warning posted yet
Member(name, is_bot, deleted) ==
    [name |-> name, id |-> "U-" \o name, is_bot |-> is_bot, deleted |-> deleted]

Chat(members) == [members |-> members, posted |-> <<>>, passes |-> 0]

\* before the first request
NoExchange == [user |-> "-", command |-> "-", text |-> <<>>, reply |-> "-"]

InitProvider(instances0, volumes0) ==
    /\ instances \in instances0
    /\ volumes \in volumes0
    /\ key_pairs = {[KeyName |-> "u1", KeyMaterial |-> "ssh-rsa A"]}
    /\ threads = <<>>
    /\ modals = [u \in Users |-> [c \in CallbackIds |-> 0]]
    /\ direct = [u \in Users |-> <<>>]
    /\ config = Config([present |-> TRUE, items |-> <<>>])
    /\ exchange = NoExchange
    /\ chat = Chat({Member("u1", FALSE, FALSE), Member("u2", FALSE, FALSE)})

\* The inbound webhook events so far: every modal still open took one command,
\* every unit started by a submission took a command and the submission, a unit
\* started by /ebs detach or /ebs destroy please took the command alone, and a
\* message posted by a handler took a command and the submission.
RECURSIVE EventsOfUnits(_)
EventsOfUnits(t) ==
    IF t = 0 THEN 0
    ELSE EventsOfUnits(t - 1) +
         (IF threads[t].function \in {"detach_volume", "destroy_volume"} THEN 1 ELSE 2)

Events ==
    OpenModals + EventsOfUnits(Len(threads)) + 2 * (Len(direct["u1"]) + Len(direct["u2"]))

\* A run is cut after `n` inbound events.
More(n) == Events < n

VolumeHandlers(U, n) ==
    \/ \E u \in U : open_volume_create_modal(u) /\ More(n) /\ UNCHANGED exchange
    \/ \E u \in U, s \in SubmittedSizes : submit_create_volume(u, s) /\ More(n) /\ UNCHANGED exchange
    \/ \E u \in U : open_volume_attach_modal(u) /\ More(n) /\ UNCHANGED exchange
    \/ \E u \in U : \E i \in Selectable(u) : submit_attach_volume(u, i) /\ More(n) /\ UNCHANGED exchange
    \/ \E u \in U : ebs_detach(u) /\ More(n) /\ UNCHANGED exchange
    \/ \E u \in U : ebs_destroy_please(u) /\ More(n) /\ UNCHANGED exchange

LaunchHandlers(U, n) ==
    \/ \E u \in U : ec2_up(u) /\ More(n) /\ UNCHANGED exchange
    \/ \E u \in U, ty \in InstanceTypes, m \in MountOptions :
          submit_launch_instance(u, ty, 1, m) /\ More(n) /\ UNCHANGED exchange

OperateHandlers(U, n) ==
    \/ \E u \in U, c \in {"terminate", "stop", "start"} :
          open_instance_operate_modal(u, c) /\ More(n) /\ UNCHANGED exchange
    \/ \E u \in U, c \in {"terminate", "stop", "start"} :
          \E ids \in SUBSET Selectable(u) \ {{}} :
             submit_operate_instance(u, c, ids) /\ More(n) /\ UNCHANGED exchange

ChangeHandlers(U, n) ==
    \/ \E u \in U : open_instance_change_modal(u) /\ More(n) /\ UNCHANGED exchange
    \/ \E u \in U, ty \in InstanceTypes : \E i \in Selectable(u) :
          submit_change_instance(u, i, ty) /\ More(n) /\ UNCHANGED exchange

VolumeUnits ==
    \/ \E t \in DOMAIN threads : create_volume_call(t)
    \/ \E t \in DOMAIN threads : create_volume_wait(t)
    \/ \E t \in DOMAIN threads : attach_volume_call(t)
    \/ \E t \in DOMAIN threads : attach_volume_wait(t)
    \/ \E t \in DOMAIN threads : detach_volume_call(t)
    \/ \E t \in DOMAIN threads : detach_volume_wait(t)
    \/ \E t \in DOMAIN threads : destroy_volume_call(t)
    \/ \E t \in DOMAIN threads : destroy_volume_wait(t)

LaunchUnits ==
    \/ \E t \in DOMAIN threads : launch_run_instances(t)
    \/ \E t \in DOMAIN threads : launch_wait_running(t)
    \/ \E t \in DOMAIN threads : launch_attach_volume(t)
    \/ \E t \in DOMAIN threads : launch_wait_in_use(t)
    \/ \E t \in DOMAIN threads : launch_wait_status_ok(t)

InstanceUnits ==
    \/ \E t \in DOMAIN threads : terminate_instances_call(t)
    \/ \E t \in DOMAIN threads : terminate_wait(t)
    \/ \E t \in DOMAIN threads : stop_instances_call(t)
    \/ \E t \in DOMAIN threads : stop_wait(t)
    \/ \E t \in DOMAIN threads : start_instances_call(t)
    \/ \E t \in DOMAIN threads : start_wait(t)
    \/ \E t \in DOMAIN threads : change_modify_instance_attribute(t)

Provider ==
    \/ \E i \in DOMAIN instances : ProviderInstanceRunning(i)
    \/ \E i \in DOMAIN instances : ProviderInstanceStatusOk(i)
    \/ \E i \in DOMAIN instances : ProviderInstanceStopped(i)
    \/ \E i \in DOMAIN instances : ProviderInstanceTerminated(i)
    \/ \E v \in DOMAIN volumes : ProviderVolumeAvailable(v)
    \/ \E v \in DOMAIN volumes : ProviderVolumeDetached(v)
    \/ \E v \in DOMAIN volumes : ProviderVolumeDeleted(v)

\* Every command and every submission of every user.
Init ==
    InitProvider({<<>>, <<RunningInstance("u1", "t1")>>},
                 {<<>>, <<Volume("u1", FALSE, {})>>})

Next ==
    \/ VolumeHandlers(Users, MaxEvents)
    \/ LaunchHandlers(Users, MaxEvents)
    \/ OperateHandlers(Users, MaxEvents)
    \/ ChangeHandlers(Users, MaxEvents)
    \/ VolumeUnits
    \/ LaunchUnits
    \/ InstanceUnits
    \/ Provider

Spec == Init /\ [][Next]_vars

\* Volume operations alone, one event more: two users' worth of /ebs commands on
\* volumes that may already be attached, one of them to several instances.
InitVolume ==
    InitProvider({<<RunningInstance("u1", "t1"), RunningInstance("u1", "t1")>>},
                 {<<>>, <<Volume("u1", FALSE, {})>>, <<Volume("u1", TRUE, {1, 2})>>})

NextVolume ==
    \/ VolumeHandlers({"u1"}, MaxRaceEvents)
    \/ VolumeUnits
    \/ \E v \in DOMAIN volumes : ProviderVolumeAvailable(v)
    \/ \E v \in DOMAIN volumes : ProviderVolumeDetached(v)
    \/ \E v \in DOMAIN volumes : ProviderVolumeDeleted(v)

SpecVolume == InitVolume /\ [][NextVolume]_vars

\* /ec2 change alone, one event more: two changes of the same instance overlap.
InitChange == InitProvider({<<RunningInstance("u1", "t1")>>}, {<<>>})

NextChange ==
    \/ ChangeHandlers({"u1"}, MaxRaceEvents)
    \/ \E t \in DOMAIN threads : stop_instances_call(t)
    \/ \E t \in DOMAIN threads : stop_wait(t)
    \/ \E t \in DOMAIN threads : change_modify_instance_attribute(t)
    \/ \E t \in DOMAIN threads : start_instances_call(t)
    \/ \E t \in DOMAIN threads : start_wait(t)
    \/ \E i \in DOMAIN instances : ProviderInstanceStopped(i)
    \/ \E i \in DOMAIN instances : ProviderInstanceRunning(i)
    \/ \E i \in DOMAIN instances : ProviderInstanceStatusOk(i)

SpecChange == InitChange /\ [][NextChange]_vars

\* /ec2 key alone, one event more: two imports for the same name overlap.
KeyHandlers(U, n) ==
    \/ \E u \in U : ec2_key(u) /\ More(n) /\ UNCHANGED exchange
    \/ \E u \in U, k \in PublicKeys : submit_key(u, k) /\ More(n) /\ UNCHANGED exchange

KeyUnits ==
    \/ \E t \in DOMAIN threads : create_key_pair_delete(t)
    \/ \E t \in DOMAIN threads : create_key_pair_import(t)

InitKey == InitProvider({<<>>}, {<<>>})

NextKey ==
    \/ KeyHandlers(Users, MaxRaceEvents)
    \/ KeyUnits

SpecKey == InitKey /\ [][NextKey]_vars

\* The three modals that take a size, with sizes below, at and above the maximum.
SizesAround == 0..(max_volume_size + 1)

SizeHandlers(U, n) ==
    \/ \E u \in U : open_volume_create_modal(u) /\ More(n) /\ UNCHANGED exchange
    \/ \E u \in U, v \in SizesAround :
          submit_create_volume(u, v) /\ More(n) /\ UNCHANGED exchange
    \/ \E u \in U : open_volume_resize_modal(u) /\ More(n) /\ UNCHANGED exchange
    \/ \E u \in U, v \in SizesAround :
          submit_resize_volume(u, v) /\ More(n) /\ UNCHANGED exchange
    \/ \E u \in U : ec2_up(u) /\ More(n) /\ UNCHANGED exchange
    \/ \E u \in U, v \in SizesAround :
          submit_launch_instance(u, "t1", v, "none") /\ More(n) /\ UNCHANGED exchange

ResizeUnits ==
    \/ \E t \in DOMAIN threads : resize_modify_volume(t)
    \/ \E t \in DOMAIN threads : resize_poll(t)

InitSizes == InitProvider({<<>>}, {<<>>, <<Volume("u1", FALSE, {})>>})

NextSizes ==
    \/ SizeHandlers(Users, MaxPairEvents)
    \/ ResizeUnits
    \/ \E t \in DOMAIN threads : create_volume_call(t)
    \/ \E t \in DOMAIN threads : create_volume_wait(t)
    \/ \E t \in DOMAIN threads : launch_run_instances(t)
    \/ \E t \in DOMAIN threads : launch_wait_running(t)
    \/ \E t \in DOMAIN threads : launch_wait_status_ok(t)
    \/ \E i \in DOMAIN instances : ProviderInstanceRunning(i)
    \/ \E i \in DOMAIN instances : ProviderInstanceStatusOk(i)
    \/ \E v \in DOMAIN volumes : ProviderVolumeAvailable(v)
    \/ \E v \in DOMAIN volumes : ProviderVolumeModified(v)
    \/ \E v \in DOMAIN volumes : ProviderVolumeOptimized(v)

SpecSizes == InitSizes /\ [][NextSizes]_vars

\* The same under a scheduler that lets every started unit take its steps.
FairSizes ==
    \A t \in 1..MaxPairEvents :
       /\ WF_vars(resize_modify_volume(t))
       /\ WF_vars(resize_poll(t))

SpecSizesFair == SpecSizes /\ FairSizes

\* Every request through the router, with its reply.
Commands == {"/ec2", "/ebs", "/s3"}

\* the subcommands of /ec2, no text at all, and a verb of /ebs
Ec2Texts ==
    {<<"key">>, <<"up">>, <<"down">>, <<"start">>, <<"stop">>, <<"change">>,
     <<>>, <<"create">>}

\* the verbs of /ebs, the confirmed destroy, no text at all, an unknown word, a
\* subcommand of /ec2, and a verb followed by another word
EbsTexts ==
    {<<"create">>, <<"resize">>, <<"attach">>, <<"detach">>, <<"destroy">>,
     <<"destroy", "please">>, <<>>, <<"format">>, <<"up">>, <<"create", "now">>}

Texts == Ec2Texts \cup EbsTexts

Requests ==
    ({"/ec2"} \X Ec2Texts) \cup ({"/ebs"} \X EbsTexts) \cup {<<"/s3", <<"up">>>>}

Submissions(U, n) ==
    \/ \E u \in U, k \in PublicKeys :
          submit_key(u, k) /\ More(n) /\ handle_events(u, "submit_key")
    \/ \E u \in U, m \in MountOptions :
          submit_launch_instance(u, "t1", 1, m) /\ More(n)
             /\ handle_events(u, "launch_instance")
    \/ \E u \in U, c \in {"terminate", "stop", "start"} :
          \E ids \in SUBSET Selectable(u) \ {{}} :
             submit_operate_instance(u, c, ids) /\ More(n)
                /\ handle_events(u, c \o "_instance")
    \/ \E u \in U, ty \in InstanceTypes : \E i \in Selectable(u) :
          submit_change_instance(u, i, ty) /\ More(n)
             /\ handle_events(u, "change_instance")
    \/ \E u \in U, v \in SubmittedSizes :
          submit_create_volume(u, v) /\ More(n) /\ handle_events(u, "create_volume")
    \/ \E u \in U, v \in SubmittedSizes :
          submit_resize_volume(u, v) /\ More(n) /\ handle_events(u, "resize_volume")
    \/ \E u \in U : \E i \in Selectable(u) :
          submit_attach_volume(u, i) /\ More(n) /\ handle_events(u, "attach_volume")

StoppedInstance(user, type) ==
    [RunningInstance(user, type) EXCEPT !.state = "stopped", !.ok = FALSE]

InitCommands ==
    \/ InitProvider({<<>>, <<StoppedInstance("u1", "t1")>>}, {<<>>})
    \/ InitProvider({<<StoppedInstance("u1", "t1")>>}, {<<Volume("u1", FALSE, {})>>})
    \/ InitProvider({<<RunningInstance("u1", "t1")>>},
                    {<<Volume("u1", FALSE, {})>>, <<Volume("u1", FALSE, {1})>>})

NextCommands ==
    \/ \E u \in Users, r \in Requests :
          handle_commands(r[1], r[2], u) /\ More(MaxPairEvents)
    \/ Submissions(Users, MaxPairEvents)
    \/ \E u \in Users, c \in OtherCallbackIds :
          submit_unhandled(u, c) /\ More(MaxPairEvents) /\ handle_events(u, c)
    \/ VolumeUnits
    \/ LaunchUnits
    \/ InstanceUnits
    \/ KeyUnits
    \/ ResizeUnits
    \/ Provider
    \/ \E v \in DOMAIN volumes : ProviderVolumeModified(v)
    \/ \E v \in DOMAIN volumes : ProviderVolumeOptimized(v)

SpecCommands == InitCommands /\ [][NextCommands]_vars

\* /ec2 up alone under every shape of default_tags: absent, empty, another key,
\* and the owner's key itself.
DefaultTags ==
    {[present |-> FALSE, items |-> <<>>],
     [present |-> TRUE, items |-> <<>>],
     [present |-> TRUE, items |-> <<[Key |-> "Project", Value |-> "x"]>>],
     [present |-> TRUE, items |-> <<[Key |-> "User", Value |-> "u2"]>>]}

InitTags ==
    /\ instances = <<RunningInstance("u2", "t1")>>
    /\ volumes \in {<<>>, <<Volume("u1", FALSE, {})>>}
    /\ key_pairs = {[KeyName |-> "u1", KeyMaterial |-> "ssh-rsa A"]}
    /\ threads = <<>>
    /\ modals = [u \in Users |-> [c \in CallbackIds |-> 0]]
    /\ direct = [u \in Users |-> <<>>]
    /\ config \in {Config(d) : d \in DefaultTags}
    /\ exchange = NoExchange
    /\ chat = Chat({Member("u1", FALSE, FALSE), Member("u2", FALSE, FALSE)})

NextTags ==
    \/ LaunchHandlers(Users, MaxRaceEvents)
    \/ LaunchUnits
    \/ \E i \in DOMAIN instances : ProviderInstanceRunning(i)
    \/ \E i \in DOMAIN instances : ProviderInstanceStatusOk(i)

SpecTags == InitTags /\ [][NextTags]_vars

\* /ec2 down, stop and start alone, on two instances, so that a submission can
\* list both and two operations on them can overlap.
InitOperate ==
    InitProvider({<<RunningInstance("u1", "t1"), RunningInstance("u1", "t1")>>,
                  <<RunningInstance("u1", "t1"), StoppedInstance("u1", "t1")>>,
                  <<StoppedInstance("u1", "t1"), StoppedInstance("u1", "t1")>>},
                 {<<>>})

NextOperate ==
    \/ OperateHandlers({"u1"}, MaxRaceEvents)
    \/ \E t \in DOMAIN threads : terminate_instances_call(t)
    \/ \E t \in DOMAIN threads : terminate_wait(t)
    \/ \E t \in DOMAIN threads : stop_instances_call(t)
    \/ \E t \in DOMAIN threads : stop_wait(t)
    \/ \E t \in DOMAIN threads : start_instances_call(t)
    \/ \E t \in DOMAIN threads : start_wait(t)
    \/ \E i \in DOMAIN instances : ProviderInstanceRunning(i)
    \/ \E i \in DOMAIN instances : ProviderInstanceStatusOk(i)
    \/ \E i \in DOMAIN instances : ProviderInstanceStopped(i)
    \/ \E i \in DOMAIN instances : ProviderInstanceTerminated(i)

SpecOperate == InitOperate /\ [][NextOperate]_vars

\* The scanner alone, over instances of members, of a bot, of a deleted member
\* and of nobody, cheap, large and of a type the catalog does not list.
ScannedTags ==
    {<<>>,
     <<[Key |-> "User", Value |-> "u1"]>>,
     <<[Key |-> "Project", Value |-> "x"], [Key |-> "User", Value |-> "u2"]>>,
     <<[Key |-> "User", Value |-> "u3"]>>}

ScannedInstances ==
    {[RunningInstance("u1", ty) EXCEPT !.tags = tg, !.state = st, !.running_days = d] :
        ty \in InstanceTypes \cup {"t9"}, tg \in ScannedTags,
        st \in {"running", "stopped"}, d \in {0, 1}}

InitScanner ==
    /\ instances \in {<<a, b>> : a, b \in ScannedInstances}
    /\ volumes = <<>>
    /\ key_pairs = {}
    /\ threads = <<>>
    /\ modals = [u \in Users |-> [c \in CallbackIds |-> 0]]
    /\ direct = [u \in Users |-> <<>>]
    /\ config = Config([present |-> TRUE, items |-> <<>>])
    /\ exchange = NoExchange
    /\ chat \in {Chat({Member("u1", FALSE, FALSE), Member("u2", b, d)}) :
                   b \in BOOLEAN, d \in BOOLEAN}

NextScanner ==
    \/ periodically_check_instances
    \/ DayPasses

SpecScanner == InitScanner /\ [][NextScanner]_vars

\* The earlier server: modals of the owner of a volume and the resize modal of a
\* user whose volume is gone are open, and every submission and every step of
\* its handlers may follow.
LegacyOpened ==
    [1..MaxLegacyModals ->
        {<<"u1", c>> : c \in LegacyCallbackIds} \cup {<<"u2", "resize_volume">>}]

InitLegacy ==
    /\ instances = <<RunningInstance("u1", "t1")>>
    /\ volumes = <<Volume("u1", FALSE, {})>>
    /\ key_pairs = {[KeyName |-> "U-u1", KeyMaterial |-> "ssh-rsa A"]}
    /\ threads = <<>>
    /\ \E opened \in LegacyOpened :
          modals = [u \in Users |-> [c \in CallbackIds |->
                       Cardinality({k \in DOMAIN opened : opened[k] = <<u, c>>})]]
    /\ direct = [u \in Users |-> <<>>]
    /\ config = Config([present |-> TRUE, items |-> <<>>])
    /\ exchange = NoExchange
    /\ chat = Chat({Member("u1", FALSE, FALSE), Member("u2", FALSE, FALSE)})

NextLegacy ==
    \/ \E u \in Users, c \in LegacyCallbackIds : legacy_handle_interactions(u, c)
    \/ \E t \in DOMAIN threads : legacy_key_delete(t)
    \/ \E t \in DOMAIN threads : legacy_key_import(t)
    \/ \E t \in DOMAIN threads : legacy_launch_describe_volumes(t)
    \/ \E t \in DOMAIN threads : legacy_launch_run_instances(t)
    \/ \E t \in DOMAIN threads : legacy_launch_wait_running(t)
    \/ \E t \in DOMAIN threads : legacy_launch_attach_volume(t)
    \/ \E t \in DOMAIN threads : legacy_terminate_call(t)
    \/ \E t \in DOMAIN threads : legacy_terminate_wait(t)
    \/ \E t \in DOMAIN threads : legacy_create_volume_call(t)
    \/ \E t \in DOMAIN threads : legacy_wait_available(t)
    \/ \E t \in DOMAIN threads : legacy_resize_modify_volume(t)
    \/ \E t \in DOMAIN threads : legacy_attach_call(t)
    \/ \E t \in DOMAIN threads : legacy_attach_wait(t)
    \/ \E i \in DOMAIN instances : ProviderInstanceRunning(i)
    \/ \E i \in DOMAIN instances : ProviderInstanceTerminated(i)
    \/ \E v \in DOMAIN volumes : ProviderVolumeAvailable(v)
    \/ \E v \in DOMAIN volumes : ProviderVolumeModified(v)

SpecLegacy == InitLegacy /\ [][NextLegacy]_vars

\* Launches alone, over every image, mount option and startup text.
StartupTexts ==
    {NoText, Text(<<>>), Text(<<"pip install x">>),
     Text(<<"pip install x", "\n", "make", "\n">>)}

InitBoot == InitProvider({<<>>}, {<<>>, <<Volume("u1", FALSE, {})>>})

NextBoot ==
    \/ \E u \in {"u1"} : ec2_up(u) /\ More(MaxPairEvents) /\ UNCHANGED exchange
    \/ \E u \in {"u1"}, a \in DOMAIN config.amis, m \in MountOptions,
          s \in StartupTexts :
          submit_launch_instance_of(u, a, "t1", 1, m, s)
             /\ More(MaxPairEvents) /\ UNCHANGED exchange
    \/ LaunchUnits
    \/ \E i \in DOMAIN instances : ProviderInstanceRunning(i)
    \/ \E i \in DOMAIN instances : ProviderInstanceStatusOk(i)

SpecBoot == InitBoot /\ [][NextBoot]_vars

\* The web server in front of the router: signed and unsigned requests to its
\* routes and to paths it has no route for; no volume is attached, so a detach
\* has no attachment to go through.
WebPaths ==
    {<<"slack", "commands">>, <<"slack", "events">>, <<"slack", "other">>,
     <<"healthz">>, <<"other">>}

WebCommands == {<<"/ebs", <<"create">>>>, <<"/ebs", <<"detach">>>>, <<"/ec2", <<"key">>>>}

InitWeb == InitProvider({<<>>}, {<<>>, <<Volume("u1", FALSE, {})>>})

NextWeb ==
    \/ \E signed \in BOOLEAN, r \in WebCommands :
          /\ Received(<<"slack", "commands">>, signed,
                      "application/x-www-form-urlencoded", "u1", r[1], r[2])
          /\ More(MaxEvents)
    \/ \E signed \in BOOLEAN, c \in {"create_volume", "submit_key"},
          ct \in {"application/x-www-form-urlencoded", "text/plain"} :
          /\ modals["u1"][c] > 0
          /\ Received(<<"slack", "events">>, signed, ct, "u1", "view_submission", <<c>>)
          /\ More(MaxEvents)
    \/ \E signed \in BOOLEAN, p \in {<<"slack", "other">>, <<"healthz">>, <<"other">>} :
          /\ Received(p, signed, "text/plain", "u1", "-", <<>>)
          /\ More(MaxEvents)
    \/ abort_invalid_signature
    \/ slack_commands
    \/ slack_events
    \/ healthz
    \/ not_found
    \/ \E t \in DOMAIN threads : create_volume_call(t)
    \/ \E t \in DOMAIN threads : create_volume_wait(t)
    \/ \E t \in DOMAIN threads : detach_volume_wait(t)
    \/ \E t \in DOMAIN threads : create_key_pair_delete(t)
    \/ \E t \in DOMAIN threads : create_key_pair_import(t)
    \/ \E v \in DOMAIN volumes : ProviderVolumeAvailable(v)

SpecWeb == InitWeb /\ [][NextWeb]_vars

\* Two owners: u1 opens an operate modal, and the submission that comes back
\* names any of the instances there are, as the payload may.
InitIsolation ==
    InitProvider({<<RunningInstance("u1", "t1"), RunningInstance("u2", "t1")>>,
                  <<StoppedInstance("u1", "t1"), StoppedInstance("u2", "t1")>>,
                  <<RunningInstance("u1", "t1"), StoppedInstance("u2", "t1")>>},
                 {<<>>})

NextIsolation ==
    \/ \E c \in {"terminate", "stop", "start"} :
          open_instance_operate_modal("u1", c) /\ More(MaxPairEvents) /\ UNCHANGED exchange
    \/ \E c \in {"terminate", "stop", "start"} :
          \E ids \in SUBSET DOMAIN instances \ {{}} :
             submit_operate_instance("u1", c, ids)
                /\ More(MaxPairEvents) /\ UNCHANGED exchange
    \/ \E t \in DOMAIN threads : terminate_instances_call(t)
    \/ \E t \in DOMAIN threads : terminate_wait(t)
    \/ \E t \in DOMAIN threads : stop_instances_call(t)
    \/ \E t \in DOMAIN threads : stop_wait(t)
    \/ \E t \in DOMAIN threads : start_instances_call(t)
    \/ \E t \in DOMAIN threads : start_wait(t)
    \/ \E i \in DOMAIN instances : ProviderInstanceRunning(i)
    \/ \E i \in DOMAIN instances : ProviderInstanceStopped(i)
    \/ \E i \in DOMAIN instances : ProviderInstanceTerminated(i)

SpecIsolation == InitIsolation /\ [][NextIsolation]_vars

\* The volume goes away between a modal and its submission: u1 opens a resize,
\* attach or launch modal while the volume is there, destroys the volume, and
\* submits the modal afterwards.
InitGone ==
    InitProvider({<<RunningInstance("u1", "t1")>>}, {<<Volume("u1", FALSE, {})>>})

NextGone ==
    \/ open_volume_resize_modal("u1") /\ More(MaxEvents) /\ UNCHANGED exchange
    \/ \E v \in SubmittedSizes :
          submit_resize_volume("u1", v) /\ More(MaxEvents) /\ UNCHANGED exchange
    \/ open_volume_attach_modal("u1") /\ More(MaxEvents) /\ UNCHANGED exchange
    \/ \E i \in Selectable("u1") :
          submit_attach_volume("u1", i) /\ More(MaxEvents) /\ UNCHANGED exchange
    \/ ec2_up("u1") /\ More(MaxEvents) /\ UNCHANGED exchange
    \/ \E m \in {"none", "ebs"} :
          submit_launch_instance("u1", "t1", 1, m) /\ More(MaxEvents) /\ UNCHANGED exchange
    \/ ebs_destroy_please("u1") /\ More(MaxEvents) /\ UNCHANGED exchange
    \/ ResizeUnits
    \/ \E t \in DOMAIN threads : attach_volume_call(t)
    \/ \E t \in DOMAIN threads : attach_volume_wait(t)
    \/ \E t \in DOMAIN threads : destroy_volume_call(t)
    \/ \E t \in DOMAIN threads : destroy_volume_wait(t)
    \/ LaunchUnits
    \/ \E i \in DOMAIN instances : ProviderInstanceRunning(i)
    \/ \E i \in DOMAIN instances : ProviderInstanceStatusOk(i)
    \/ \E v \in DOMAIN volumes : ProviderVolumeModified(v)
    \/ \E v \in DOMAIN volumes : ProviderVolumeOptimized(v)
    \/ \E v \in DOMAIN volumes : ProviderVolumeDeleted(v)

SpecGone == InitGone /\ [][NextGone]_vars

\* Key replacement seen from the router: u1, who has a key pair, and u2, who has
\* none, send /ec2 key and /ec2 up and submit the key modal; two replacements of
\* the same owner may overlap.
InitReplace == InitProvider({<<>>}, {<<>>})

NextReplace ==
    \/ \E u \in Users, text \in {<<"key">>, <<"up">>} :
          handle_commands("/ec2", text, u) /\ More(MaxRaceEvents)
    \/ \E u \in Users, k \in PublicKeys :
          submit_key(u, k) /\ More(MaxRaceEvents) /\ handle_events(u, "submit_key")
    \/ \E t \in DOMAIN threads : create_key_pair_delete(t)
    \/ \E t \in DOMAIN threads : create_key_pair_import(t)

SpecReplace == InitReplace /\ [][NextReplace]_vars

\* The scanner's thread from its start on, over one instance of every scanned
\* shape, with days passing in between.
InitChecks ==
    /\ instances \in {<<a>> : a \in ScannedInstances}
    /\ volumes = <<>>
    /\ key_pairs = {}
    /\ threads = <<>>
    /\ modals = [u \in Users |-> [c \in CallbackIds |-> 0]]
    /\ direct = [u \in Users |-> <<>>]
    /\ config = Config([present |-> TRUE, items |-> <<>>])
    /\ exchange = NoExchange
    /\ chat = Chat({Member("u1", FALSE, FALSE), Member("u2", FALSE, FALSE)})

NextChecks ==
    \/ start_periodic_checks
    \/ \E t \in DOMAIN threads : run_checks_pass(t)
    \/ \E t \in DOMAIN threads : run_checks_sleep(t)
    \/ DayPasses

SpecChecks == InitChecks /\ [][NextChecks]_vars

\* The same under a scheduler that runs the scanner's thread whenever it can
\* run, and a sleep that returns.
FairChecks == WF_vars(run_checks_pass(1)) /\ WF_vars(run_checks_sleep(1))

SpecChecksFair == SpecChecks /\ FairChecks

\* ------------------------------------------------------------ properties
Unit(t, function) == threads[t].function = function

\* the unit has returned from its function in this step
Returns(t) ==
    /\ t \in DOMAIN threads
    /\ threads[t].pc # "done"
    /\ threads'[t].pc = "done"

\* no other unit, finished or not, names the volume or an instance of unit t
Alone(t) ==
    \A o \in DOMAIN threads \ {t} :
        /\ threads[o].volume_id = None \/ threads[o].volume_id # threads[t].volume_id
        /\ threads[o].instance_ids \cap (threads[t].instance_ids \cup {threads[t].response}) = {}
        /\ threads[o].response = None \/ threads[o].response \notin threads[t].instance_ids

\* C1: at every moment, also while operations of the same owner overlap, an owner
\* has at most one volume.
OneVolumePerOwner == \A u \in Users : Cardinality(VolumesOf(u)) <= 1

\* C2: an operation that returned has posted exactly one message, its success
\* message, to the user who started it; one that raised ClientError has posted
\* exactly one message, its error message with the error text, to that user.
OneMessagePerOperation ==
    \A t \in DOMAIN threads :
        LET th == threads[t] IN
        /\ th.pc = "done" =>
              th.posted = <<[channel |-> th.user, text |-> th.success_message.text,
                             arg |-> IF th.success_message.fill
                                     THEN th.response ELSE th.success_message.arg]>>
        /\ th.pc = "failed" =>
              /\ th.raised = "ClientError"
              /\ th.posted = <<[channel |-> th.user, text |-> th.error_message.text,
                                arg |-> "ClientError"]>>

OperationsReported ==
    \E a, b \in DOMAIN threads :
        /\ threads[a].pc = "done" /\ Len(threads[a].posted) = 1
        /\ threads[b].pc = "failed" /\ Len(threads[b].posted) = 1

\* C3: every operation in which a provider call or a provider waiter failed has
\* posted its error message to the user who started it.
EveryProviderFailureReported ==
    \A t \in DOMAIN threads :
        threads[t].raised \in {"ClientError", "WaiterError"} =>
            /\ Len(threads[t].posted) = 1
            /\ threads[t].posted[1].channel = threads[t].user
            /\ threads[t].posted[1].text = threads[t].error_message.text

\* the first provider call (or waiter) of each function
FirstStep(th) ==
    CASE th.function = "create_volume" -> "create"
      [] th.function = "launch_ec2_instance" -> "run_instances"
      [] th.function = "terminate_ec2_instances" -> "terminate_instances"
      [] th.function \in {"stop_ec2_instances", "change_instance_type"} -> "stop_instances"
      [] th.function = "start_ec2_instances" -> "start_instances"
      [] th.function = "attach_volume" -> "attach_volume"
      [] th.function = "detach_volume" ->
            IF th.attachments = {} THEN "wait_available" ELSE "detach_volume"
      [] th.function = "destroy_volume" -> "delete_volume"

NotStarted(th) ==
    /\ th.pc = FirstStep(th)
    /\ th.posted = <<>>
    /\ th.raised = "-"
    /\ th.detached = {}

LaunchWithEbs(t) ==
    /\ Unit(t, "launch_ec2_instance")
    /\ threads[t].mount_option = "ebs"

LaunchReturnsHealthyInstance ==
    \A t \in DOMAIN threads :
        (Unit(t, "launch_ec2_instance") /\ threads[t].pc = "done") =>
            /\ threads[t].response \in DOMAIN instances
            /\ instances[threads[t].response].everRunning
            /\ instances[threads[t].response].everOk

LaunchReturned ==
    \E t \in DOMAIN threads :
        /\ Unit(t, "launch_ec2_instance") /\ threads[t].pc = "done"
        /\ threads[t].mount_option # "ebs"
        /\ instances[threads[t].response].everOk

\* a launch issues its attach_volume call in this step
IssuesAttach(t) ==
    /\ LaunchWithEbs(t)
    /\ threads[t].pc = "attach_volume"
    /\ threads'[t].pc # "attach_volume"

\* C7 as written: a launch issues the attach only after the instance has reached
\* running and has passed its health check.
AttachAfterHealthCheck ==
    [][\A t \in DOMAIN threads :
          IssuesAttach(t) =>
              /\ instances[threads[t].response].everRunning
              /\ instances[threads[t].response].everOk]_vars

\* C7: a launch issues the attach only after the instance has reached running; the
\* health check is awaited after the attach and the wait for in-use, and the
\* launch returns only from the health check.
AttachAfterRunning ==
    [][\A t \in DOMAIN threads :
          LaunchWithEbs(t) =>
              /\ IssuesAttach(t) => instances[threads[t].response].everRunning
              /\ (threads'[t].pc = "wait_status_ok" /\ threads[t].pc # "wait_status_ok")
                    => threads[t].pc = "wait_in_use"
              /\ Returns(t) => threads[t].pc = "wait_status_ok"]_vars

AttachedBeforeHealthCheck ==
    \E t \in DOMAIN threads :
        /\ LaunchWithEbs(t)
        /\ threads[t].pc = "wait_in_use"
        /\ threads[t].response \in Attachments(threads[t].volume_id)
        /\ instances[threads[t].response].everRunning
        /\ ~instances[threads[t].response].everOk

\* the attachments of unit t's volume for which no detach call has been accepted
NotDetaching(t) ==
    volumes[threads[t].volume_id].att \ volumes[threads[t].volume_id].detaching

\* C8 as written: once a detach operation has made its detach calls and waits for
\* the volume, every attachment that is on the volume is being detached, also when
\* an attach came between the command and the calls.
DetachDetachesEveryAttachment ==
    \A t \in DOMAIN threads :
        (Unit(t, "detach_volume") /\ threads[t].pc = "wait_available") =>
            NotDetaching(t) = {}

\* C8: a detach operation makes a detach call for every attachment that was on the
\* volume when the command was read, none, one or several, before it waits; and
\* when it returns, the volume is available and has no attachment.
DetachDetachesAttachmentsRead ==
    [][\A t \in DOMAIN threads' :
          threads'[t].function = "detach_volume" =>
              /\ threads'[t].pc \in {"wait_available", "done"} =>
                    threads'[t].detached = threads'[t].attachments
              /\ Returns(t) =>
                    /\ volumes'[threads[t].volume_id].state = "available"
                    /\ Attachments(threads[t].volume_id)' = {}]_vars

DetachedSeveral ==
    \E t \in DOMAIN threads :
        /\ Unit(t, "detach_volume") /\ threads[t].pc = "done"
        /\ Cardinality(threads[t].attachments) > 1
        /\ volumes[threads[t].volume_id].state = "available"

\* the steps of change_instance_type, in the order of the code
ChangeSteps ==
    <<"stop_instances", "wait_stopped", "modify_instance_attribute",
      "start_instances", "wait_running", "done">>

StepOf(pc) == CHOOSE k \in DOMAIN ChangeSteps : ChangeSteps[k] = pc

ChangesInOrder(t) ==
    (threads'[t].pc # threads[t].pc /\ threads'[t].pc \notin {"failed", "lost"}) =>
        StepOf(threads'[t].pc) = StepOf(threads[t].pc) + 1

\* C9 as written: when change_instance_type(id, type) returns, the instance has
\* that type and is running, and the steps came in the order stop and wait,
\* modify, start and wait.
ChangeLeavesRequestedType ==
    [][\A t \in DOMAIN threads :
          Unit(t, "change_instance_type") =>
              /\ ChangesInOrder(t)
              /\ Returns(t) =>
                    \A i \in threads[t].instance_ids :
                        /\ instances[i].state = "running"
                        /\ instances[i].type = threads[t].instance_type]_vars

\* C9: when change_instance_type(id, type) returns, the instance is running, and
\* it has that type if no other operation names the instance; the steps came in
\* the order stop and wait, modify, start and wait.
ChangeAloneLeavesRequestedType ==
    [][\A t \in DOMAIN threads :
          Unit(t, "change_instance_type") =>
              /\ ChangesInOrder(t)
              /\ Returns(t) =>
                    \A i \in threads[t].instance_ids :
                        /\ instances[i].state = "running"
                        /\ Alone(t) => instances[i].type = threads[t].instance_type]_vars

ChangedType ==
    \E t \in DOMAIN threads :
        /\ Unit(t, "change_instance_type") /\ threads[t].pc = "done"
        /\ Alone(t)
        /\ \A i \in threads[t].instance_ids :
              instances[i].type = threads[t].instance_type /\ instances[i].type # "t1"

\* C10: a change_instance submission either starts a unit for a type other than
\* the instance's current one, or (the type being the current one) starts no
\* unit, leaves the provider as it is and posts exactly one message
\* "Instance <id> is already of type <type>." to the user.
SameTypeChangeOnlyPosts ==
    [][\A u \in Users :
          modals'[u]["change_instance"] = modals[u]["change_instance"] - 1 =>
              \/ /\ Len(threads') = Len(threads) + 1
                 /\ \A i \in threads'[Len(threads')].instance_ids :
                       threads'[Len(threads')].instance_type # get_instance_type(i)
                 /\ UNCHANGED <<provider, direct>>
              \/ /\ UNCHANGED <<provider, threads>>
                 /\ \E i \in DOMAIN instances :
                       direct' = [direct EXCEPT ![u] = Append(@,
                          [channel |-> u, text |-> "Instance {} is already of type {}.",
                           arg |-> <<i, get_instance_type(i)>>])]]_vars

SameTypeChangePosted ==
    \E u \in Users :
        /\ Len(direct[u]) = 1
        /\ direct[u][1].text = "Instance {} is already of type {}."
        /\ threads = <<>>

\* C11: at every moment at most one key pair is resolvable under an owner's name,
\* also while two key imports of the owner overlap; and when an import returns,
\* the key resolvable under the name is the key that was submitted, not the prior one.
KeyImportReplaces ==
    [][/\ \A u \in Users : Cardinality({p \in key_pairs' : p.KeyName = u}) <= 1
       /\ \A t \in DOMAIN threads :
             (Unit(t, "create_key_pair") /\ Returns(t)) =>
                 KeysOf(threads[t].user)' = {threads[t].public_key}]_vars

KeyReplaced ==
    \E t \in DOMAIN threads :
        /\ Unit(t, "create_key_pair") /\ threads[t].pc = "done"
        /\ threads[t].user = "u1" /\ threads[t].public_key = "ssh-rsa B"
        /\ KeysOf("u1") = {"ssh-rsa B"}
        /\ Len(threads) > 1

\* min(s, max_volume_size)
Clamp(s) == IF s <= max_volume_size THEN s ELSE max_volume_size

\* the provider accepted the call unit t made at `pc` in this step
Accepted(t, pc) ==
    /\ t \in DOMAIN threads
    /\ threads[t].pc = pc
    /\ threads'[t].pc \notin {pc, "failed", "lost"}

\* C12: for a submitted size s, the size a create_volume or resize_volume unit is
\* given, the size its provider call carries, and the size its success message
\* reports are min(s, max_volume_size), and so is the root volume size of a
\* launch; the submission is scheduled without any message of the handler.
SizesClamped ==
    [][\A t \in DOMAIN threads' :
          LET th == threads'[t] IN
          /\ th.function \in {"create_volume", "resize_volume"} =>
                /\ th.size = Clamp(th.submitted)
                /\ th.size <= max_volume_size
                /\ th.submitted <= max_volume_size => th.size = th.submitted
                /\ th.pc = "done" => th.posted[1].arg = Clamp(th.submitted)
          /\ th.function = "launch_ec2_instance" =>
                /\ th.root_ebs_size = Clamp(th.submitted)
                /\ Accepted(t, "run_instances") =>
                      instances'[th.response].root = Clamp(th.submitted)
          /\ (th.function = "create_volume" /\ Accepted(t, "create")) =>
                volumes'[th.volume_id].size = Clamp(th.submitted)
          /\ (th.function = "resize_volume" /\ Accepted(t, "modify_volume")) =>
                volumes'[th.volume_id].target = Clamp(th.submitted)
          /\ t \notin DOMAIN threads => UNCHANGED direct]_vars

ClampedSizeReported ==
    \E t \in DOMAIN threads :
        /\ threads[t].function \in {"create_volume", "resize_volume"}
        /\ threads[t].pc = "done"
        /\ threads[t].submitted > max_volume_size
        /\ threads[t].posted[1].arg = max_volume_size
        /\ volumes[threads[t].volume_id].size = max_volume_size

\* A step that serves a request: it records the exchange, and a repeated request
\* shows in the modal it opens or the unit it starts.
RequestStep ==
    \/ exchange' # exchange
    \/ modals' # modals
    \/ Len(threads') # Len(threads)
    \/ direct' # direct

Asked(user, command, text) ==
    /\ RequestStep
    /\ exchange'.user = user
    /\ exchange'.command = command
    /\ exchange'.text = text

\* C13: /ec2 up of a user without a stored key pair is answered with "Please
\* upload your public key first with /ec2 key.", opens no modal and starts no
\* operation; with a stored key pair it opens the launch modal.
LaunchNeedsKey ==
    [][\A u \in Users :
          Asked(u, "/ec2", <<"up">>) =>
             IF KeysOf(u) = {}
             THEN /\ exchange'.reply = "Please upload your public key first with /ec2 key."
                  /\ UNCHANGED <<modals, threads, direct, provider>>
             ELSE /\ exchange'.reply = "200"
                  /\ modals'[u]["launch_instance"] = modals[u]["launch_instance"] + 1
                  /\ UNCHANGED <<threads, direct, provider>>]_vars

LaunchRefusedWithoutKey ==
    /\ exchange.command = "/ec2"
    /\ exchange.text = <<"up">>
    /\ KeysOf(exchange.user) = {}
    /\ exchange.reply = "Please upload your public key first with /ec2 key."
    /\ \E u \in Users : u # exchange.user /\ modals[u]["launch_instance"] > 0

OwnerTags(tags) == {k \in DOMAIN tags : tags[k].Key = "User"}

\* C14: every instance a launch created carries exactly one tag with key User,
\* whose value is the launching user, whatever default_tags holds; and the
\* instances listed for a user are instances whose owner tag names that user.
InstancesOwnerTagged ==
    /\ \A t \in DOMAIN threads :
          (threads[t].function = "launch_ec2_instance" /\ threads[t].response # None) =>
             LET tags == instances[threads[t].response].tags
             IN /\ Cardinality(OwnerTags(tags)) = 1
                /\ \A k \in OwnerTags(tags) : tags[k].Value = threads[t].user
    /\ \A u \in Users :
          \A i \in get_instance_options(u, {"pending", "running", "stopping", "stopped"}) :
             \A k \in OwnerTags(instances[i].tags) : instances[i].tags[k].Value = u

LaunchedWithDefaultTags ==
    /\ Len(config.default_tags.items) > 0
    /\ \E t \in DOMAIN threads :
          /\ threads[t].function = "launch_ec2_instance"
          /\ threads[t].response # None
          /\ Len(instances[threads[t].response].tags) = 2
          /\ get_instance_options("u2", {"running"}) = {1}

Operates(th) ==
    th.function \in {"terminate_ec2_instances", "stop_ec2_instances", "start_ec2_instances"}

MatchingState(th) ==
    CASE th.function = "terminate_ec2_instances" -> "terminated"
      [] th.function = "stop_ec2_instances" -> "stopped"
      [] th.function = "start_ec2_instances" -> "running"

OperateSuccess(th) ==
    [channel |-> th.user,
     text |-> CASE th.function = "terminate_ec2_instances" -> "Terminated instances: {}"
                [] th.function = "stop_ec2_instances" -> "Stopped instances: {}"
                [] th.function = "start_ec2_instances" -> "Started instances: {}",
     arg |-> th.instance_ids]

\* C15: a terminate, stop or start of the listed instances posts its one success
\* message, naming all of them, in the step in which its waiter found every
\* listed instance in the matching state; until then it has posted nothing.
OperateReportsAfterAll ==
    [][\A t \in DOMAIN threads :
          Operates(threads[t]) =>
             /\ threads[t].instance_ids # {}
             /\ threads[t].pc \notin {"done", "failed", "lost"} => threads[t].posted = <<>>
             /\ Returns(t) =>
                   /\ \A i \in threads[t].instance_ids :
                         instances[i].state = MatchingState(threads[t])
                   /\ threads'[t].posted = <<OperateSuccess(threads[t])>>]_vars

SeveralInstancesReported ==
    \E t \in DOMAIN threads :
       /\ Operates(threads[t])
       /\ threads[t].pc = "done"
       /\ Cardinality(threads[t].instance_ids) = 2
       /\ threads[t].posted = <<OperateSuccess(threads[t])>>

\* the instances of a user in one of the states
InStates(user, states) ==
    {i \in DOMAIN instances :
        /\ \E k \in DOMAIN instances[i].tags :
              instances[i].tags[k] = [Key |-> "User", Value |-> user]
        /\ instances[i].state \in states}

HasVolume(user) ==
    \E v \in DOMAIN volumes :
       /\ volumes[v].state # "deleted"
       /\ \E k \in DOMAIN volumes[v].tags :
             volumes[v].tags[k] = [Key |-> "User", Value |-> user]

\* the guards of the commands and the text each answers with when it fails
GuardFailure(user, command, text) ==
    CASE command = "/ebs" /\ text = <<"create">> /\ HasVolume(user) ->
            "EBS volume already exists, please /ebs destroy first."
      [] command = "/ebs" /\ ~HasVolume(user)
            /\ text \in {<<"resize">>, <<"attach">>, <<"detach">>, <<"destroy">>} ->
            "No EBS volume found. Please /ebs create first."
      [] command = "/ebs" /\ text = <<"attach">> /\ HasVolume(user)
            /\ InStates(user, {"running"}) = {} ->
            "No instances to attach to."
      [] command = "/ec2" /\ text = <<"stop">> /\ InStates(user, {"running"}) = {} ->
            "No EC2 instances to stop."
      [] command = "/ec2" /\ text = <<"start">> /\ InStates(user, {"stopped"}) = {} ->
            "No EC2 instances to start."
      [] command = "/ec2" /\ text = <<"down">>
            /\ InStates(user, {"pending", "running", "stopping", "stopped"}) = {} ->
            "No EC2 instances to terminate."
      [] command = "/ec2" /\ text = <<"change">>
            /\ InStates(user, {"pending", "running"}) = {} ->
            "No EC2 instances to change."
      [] OTHER -> "-"

\* C16: a command whose guard fails (a volume exists for /ebs create; no volume
\* for /ebs resize, attach, detach, destroy; no instance in an eligible state for
\* /ec2 down, stop, start, change or /ebs attach) is answered with its plain
\* text, opens no modal, schedules no unit and leaves the provider as it was.
GuardFailureOnlyReplies ==
    [][\A u \in Users, c \in Commands, x \in Texts :
          (Asked(u, c, x) /\ GuardFailure(u, c, x) # "-") =>
             /\ exchange'.reply = GuardFailure(u, c, x)
             /\ UNCHANGED <<modals, threads, direct, provider>>]_vars

StopRefusedForStoppedInstance ==
    /\ exchange.command = "/ec2"
    /\ exchange.text = <<"stop">>
    /\ exchange.reply = "No EC2 instances to stop."
    /\ InStates(exchange.user, {"stopped"}) # {}
    /\ threads = <<>>

Unrecognized(command, text) ==
    \/ command \notin {"/ec2", "/ebs"}
    \/ /\ command = "/ec2"
       /\ text \notin {<<"key">>, <<"up">>, <<"down">>, <<"start">>, <<"stop">>, <<"change">>}
    \/ /\ command = "/ebs"
       /\ text # <<>>
       /\ text[1] \notin {"create", "resize", "attach", "detach", "destroy"}

UnrecognizedReply(command) ==
    CASE command = "/ec2" -> "Command must be one of: key, up, down, change, stop, start."
      [] command = "/ebs" ->
            "Command must be one of: create, resize, attach, detach or destroy."
      [] OTHER -> "Command not recognized."

\* C17: a command that is neither /ec2 nor /ebs, an /ec2 text that is none of its
\* six subcommands, and an /ebs text whose first word is none of its five verbs
\* are answered with a plain text; no modal, no unit, no change at the provider.
UnrecognizedOnlyReplies ==
    [][\A u \in Users, c \in Commands, x \in Texts :
          (Asked(u, c, x) /\ Unrecognized(c, x)) =>
             /\ exchange'.reply = UnrecognizedReply(c)
             /\ UNCHANGED <<modals, threads, direct, provider>>]_vars

UnrecognizedVerbAnswered ==
    /\ exchange.command = "/ebs"
    /\ exchange.text = <<"format">>
    /\ exchange.reply = "Command must be one of: create, resize, attach, detach or destroy."
    /\ HasVolume(exchange.user)

\* the step starts a unit that will call delete_volume
StartsDestroy ==
    /\ Len(threads') = Len(threads) + 1
    /\ threads'[Len(threads')].function = "destroy_volume"

\* the step is a delete_volume call that the provider accepted
DeletesVolume(v) ==
    /\ volumes[v].state # "deleting"
    /\ volumes'[v].state = "deleting"

\* C18: a volume is deleted only by the unit that /ebs destroy please of a user
\* with a volume started, and on that user's volume; /ebs destroy alone answers
\* with the prompt and changes nothing; no other request starts such a unit.
DeleteOnlyOnDestroyPlease ==
    [][/\ \A v \in DOMAIN volumes :
             DeletesVolume(v) =>
                \E t \in DOMAIN threads :
                   /\ threads[t].function = "destroy_volume"
                   /\ threads[t].volume_id = v
                   /\ threads[t].pc # threads'[t].pc
       /\ \A t \in DOMAIN threads :
             threads[t].pc # threads'[t].pc /\ threads[t].pc = "delete_volume" =>
                threads[t].function = "destroy_volume"
       /\ StartsDestroy =>
             LET th == threads'[Len(threads')]
             IN /\ exchange' = [user |-> th.user, command |-> "/ebs",
                                text |-> <<"destroy", "please">>,
                                reply |-> "Destroying EBS volume..."]
                /\ HasVolume(th.user)
                /\ th.volume_id \in DOMAIN volumes
                /\ \E k \in DOMAIN volumes[th.volume_id].tags :
                      volumes[th.volume_id].tags[k] = [Key |-> "User", Value |-> th.user]
       /\ \A u \in Users :
             Asked(u, "/ebs", <<"destroy">>) =>
                /\ UNCHANGED <<modals, threads, direct, provider>>
                /\ HasVolume(u) =>
                      exchange'.reply =
                         "If you are sure you want to destroy the EBS volume, please type: /ebs destroy please."]_vars

VolumeDeletedOnRequest ==
    \E t \in DOMAIN threads :
       /\ threads[t].function = "destroy_volume"
       /\ threads[t].pc = "done"
       /\ volumes[threads[t].volume_id].state = "deleted"

\* the provider calls and waiters of each function, in program order
Recipe(function) ==
    CASE function = "create_volume" -> <<"create", "wait_available">>
      [] function = "launch_ec2_instance" ->
            <<"run_instances", "wait_running", "attach_volume", "wait_in_use",
              "wait_status_ok">>
      [] function = "terminate_ec2_instances" -> <<"terminate_instances", "wait_terminated">>
      [] function = "stop_ec2_instances" -> <<"stop_instances", "wait_stopped">>
      [] function = "start_ec2_instances" -> <<"start_instances", "wait_running">>
      [] function = "change_instance_type" ->
            <<"stop_instances", "wait_stopped", "modify_instance_attribute",
              "start_instances", "wait_running">>
      [] function = "attach_volume" -> <<"attach_volume", "wait_in_use">>
      [] function = "detach_volume" -> <<"detach_volume", "wait_available">>
      [] function = "destroy_volume" -> <<"delete_volume", "wait_deleted">>
      [] function = "create_key_pair" -> <<"delete_key_pair", "import_key_pair">>
      [] function = "resize_volume" -> <<"modify_volume", "describe_volumes_modifications">>

Over(th) == th.pc \in {"done", "failed", "lost"}

\* how far the unit is in its recipe; past the end once it is over
Position(th) ==
    IF Over(th) THEN Len(Recipe(th.function)) + 1
    ELSE CHOOSE k \in DOMAIN Recipe(th.function) : Recipe(th.function)[k] = th.pc

\* C19: a unit never goes back to a call it has issued: every step of a unit
\* moves it forward in its recipe, except that the detach loop stays at its call
\* for an attachment it has not detached yet and the resize loop at its poll;
\* a unit that is over, also by an error, takes no further step; and a request
\* starts at most one unit.
NoCallRepeated ==
    [][/\ Len(threads') <= Len(threads) + 1
       /\ \A t \in DOMAIN threads :
             threads'[t] # threads[t] =>
                /\ ~Over(threads[t])
                /\ \/ Position(threads'[t]) > Position(threads[t])
                   \/ /\ threads'[t].pc = threads[t].pc
                      /\ threads[t].pc = "detach_volume"
                      /\ threads[t].detached \subseteq threads'[t].detached
                      /\ threads[t].detached # threads'[t].detached
                   \/ /\ threads'[t].pc = threads[t].pc
                      /\ threads[t].pc = "describe_volumes_modifications"
                      /\ threads'[t].polls > threads[t].polls]_vars

FailedCallNotRepeated ==
    \E t \in DOMAIN threads :
       /\ threads[t].function = "launch_ec2_instance"
       /\ threads[t].pc = "failed"
       /\ threads[t].raised = "ClientError"
       /\ threads[t].response # None

\* C20: a launch that created its instance and then failed at a later call or
\* waiter has posted one message, its error message, and no success message.
FailedLaunchReported ==
    \A t \in DOMAIN threads :
       (/\ threads[t].function = "launch_ec2_instance"
        /\ threads[t].response # None
        /\ threads[t].raised \in {"ClientError", "WaiterError"}) =>
          /\ Len(threads[t].posted) = 1
          /\ threads[t].posted[1].text = "Error launching EC2 instance: {}"

SomeLost == \E t \in DOMAIN threads : threads[t].pc = "lost"

\* C21: an operation that raises anything but ClientError ends without any
\* message, then or later, and touches nothing else; with such a unit dead the
\* server still answers every submission and schedules the operation of every
\* submitted modal.
UncaughtIsSilent ==
    [][/\ \A t \in DOMAIN threads :
             /\ threads'[t].raised \notin {"-", "ClientError"} =>
                   /\ threads'[t].pc = "lost"
                   /\ threads'[t].posted = <<>>
             /\ (threads[t].pc # "lost" /\ threads'[t].pc = "lost") =>
                   /\ UNCHANGED <<modals, direct, provider, exchange>>
                   /\ \A o \in DOMAIN threads \ {t} : threads'[o] = threads[o]
             /\ threads[t].pc = "lost" => threads'[t] = threads[t]
       /\ (SomeLost /\ RequestStep) =>
             /\ exchange'.reply # "-"
             /\ exchange'.command = "view_submission" => exchange'.reply = "200"
             /\ (/\ exchange'.command = "view_submission"
                 /\ \E c \in CallbackIds : exchange'.text = <<c>>) =>
                   Len(threads') = Len(threads) + 1 \/ direct' # direct
             /\ (/\ exchange'.command = "/ebs"
                 /\ exchange'.text \in {<<"detach">>, <<"destroy", "please">>}
                 /\ HasVolume(exchange'.user)) =>
                   Len(threads') = Len(threads) + 1]_vars

ServedAfterLoss ==
    \E a, b \in DOMAIN threads :
       /\ a < b
       /\ threads[a].pc = "lost"
       /\ threads[a].posted = <<>>
       /\ threads[b].pc = "done"
       /\ Len(threads[b].posted) = 1

\* the member, neither bot nor deleted, that the owner tag of instance i names
KnownOwner(i) ==
    {m \in chat.members :
        /\ ~m.is_bot /\ ~m.deleted
        /\ \E k \in DOMAIN instances[i].tags :
              instances[i].tags[k] = [Key |-> "User", Value |-> m.name]}

Cost(i) ==
    IF instances[i].type \in DOMAIN config.instance_types
    THEN config.instance_types[instances[i].type]
    ELSE config.large_instance_cost_threshold

Qualifies(i) ==
    /\ instances[i].state = "running"
    /\ KnownOwner(i) # {}
    /\ \/ instances[i].running_days >= config.instance_warning_days
       \/ /\ Cost(i) >= config.large_instance_cost_threshold
          /\ instances[i].running_days >= config.large_instance_warning_days

ResizeReturnsCompleted ==
    [][\A t \in DOMAIN threads :
          (Returns(t) /\ threads[t].function = "resize_volume") =>
             volumes[threads[t].volume_id].modification \in {"none", "completed"}]_vars

Resizes(t) == t \in DOMAIN threads /\ threads[t].function = "resize_volume"

\* C24: resize_volume ends: it polls at most 60 times, returns at the first poll
\* that shows completed or no modification, returns at the 60th poll whatever
\* it shows, never raises for the state of the modification, and so its caller
\* posts the success message.
ResizeTerminates ==
    /\ [][\A t \in DOMAIN threads :
             (threads[t].function = "resize_volume" /\ threads'[t] # threads[t]) =>
                /\ threads'[t].polls <= 60
                /\ threads'[t].raised \in {"-", "ClientError", "ParamValidationError"}
                /\ threads[t].pc = "modify_volume" =>
                      threads'[t].pc \in {"describe_volumes_modifications", "failed", "lost"}
                /\ (/\ threads'[t].polls > threads[t].polls
                    /\ \/ volumes[threads[t].volume_id].modification \in {"none", "completed"}
                       \/ threads'[t].polls = 60) =>
                      /\ threads'[t].pc = "done"
                      /\ Len(threads'[t].posted) = 1
                      /\ threads'[t].posted[1].text = threads[t].success_message.text]_vars
    /\ \A t \in 1..MaxPairEvents : Resizes(t) ~> (Resizes(t) /\ Over(threads[t]))

ResizeGaveUp ==
    \E t \in DOMAIN threads :
       /\ threads[t].function = "resize_volume"
       /\ threads[t].pc = "done"
       /\ threads[t].polls = 60
       /\ volumes[threads[t].volume_id].modification = "failed"

\* the unit a step has just started, if it started one
Starts == Len(threads') = Len(threads) + 1

Started == threads'[Len(threads')]

\* C25 (as stated): in handle_interactions of src/app.py the operations of
\* resize_volume and attach_volume, and of no other submission, run on the
\* request thread; every other one is started on a thread of its own.
LegacyOnlyVolumeCallsInline ==
    [][Starts =>
          (Started.unit = "request" <=>
             Started.function \in {"handle_volume_resizing",
                                   "handle_volume_attachment"})]_vars

\* C25 (amended): the operations of submit_key, resize_volume and attach_volume,
\* and of no other submission, run on the request thread; launch_instance,
\* terminate_instance and create_volume are started on a thread of their own and
\* the handler returns without waiting; a unit keeps the thread it started on.
LegacyInlineSubmissions ==
    [][/\ Starts =>
            /\ Started.unit \in {"request", "background"}
            /\ Started.unit = "request" <=>
                 Started.function \in {"handle_key_submission",
                                       "handle_volume_resizing",
                                       "handle_volume_attachment"}
            /\ Started.unit = "background" <=>
                 Started.function \in {"handle_instance_launch",
                                       "handle_instance_termination",
                                       "handle_volume_creation"}
            /\ ~Over(Started)
       /\ \A t \in DOMAIN threads : threads'[t].unit = threads[t].unit]_vars

\* a key stored on the request thread while a launch runs on its own
LegacyKeyStoredInline ==
    \E s, t \in DOMAIN threads :
       /\ threads[s].function = "handle_key_submission"
       /\ threads[s].unit = "request"
       /\ threads[s].pc = "done"
       /\ threads[t].function = "handle_instance_launch"
       /\ threads[t].unit = "background"
       /\ threads[t].pc = "wait_running"

\* the operation handle_interactions selects for a callback id
OperationOf(callback_id) ==
    CASE callback_id = "submit_key" -> "create_key_pair"
      [] callback_id = "launch_instance" -> "launch_ec2_instance"
      [] callback_id = "terminate_instance" -> "terminate_ec2_instances"
      [] callback_id = "stop_instance" -> "stop_ec2_instances"
      [] callback_id = "start_instance" -> "start_ec2_instances"
      [] callback_id = "change_instance" -> "change_instance_type"
      [] callback_id = "create_volume" -> "create_volume"
      [] callback_id = "resize_volume" -> "resize_volume"
      [] callback_id = "attach_volume" -> "attach_volume"
      [] OTHER -> "-"

SubmissionOf(user, callback_id) == Asked(user, "view_submission", <<callback_id>>)

\* C26 (as stated): a view_submission with one of the nine callback ids starts
\* exactly one unit, which runs the operation of that id; a view_submission with
\* any other callback id starts nothing, sends nothing and changes nothing at
\* the provider.
SubmissionStartsItsOperation ==
    [][\A u \in Users, c \in CallbackIds \cup OtherCallbackIds :
          SubmissionOf(u, c) =>
             IF c \in CallbackIds
             THEN /\ Starts
                  /\ Started.function = OperationOf(c)
             ELSE UNCHANGED <<provider, threads, modals, direct, chat>>]_vars

\* C26 (amended): a view_submission with one of the nine callback ids starts at
\* most one unit, a background unit of the submitting user that has not begun
\* and runs the operation of that id, and calls nothing that changes the
\* provider itself; it starts none only for change_instance naming the type the
\* instance already has, which sends one message instead. A view_submission with
\* any other callback id starts nothing, sends nothing and changes nothing.
SubmissionStartsAtMostItsOperation ==
    [][\A u \in Users, c \in CallbackIds \cup OtherCallbackIds :
          SubmissionOf(u, c) =>
             IF c \in CallbackIds
             THEN /\ UNCHANGED <<provider, chat>>
                  /\ \A t \in DOMAIN threads : threads'[t] = threads[t]
                  /\ \/ /\ Starts
                        /\ Started.function = OperationOf(c)
                        /\ Started.unit = "background"
                        /\ Started.user = u
                        /\ Started.posted = <<>>
                        /\ Started.raised = "-"
                        /\ ~Over(Started)
                        /\ UNCHANGED direct
                     \/ /\ c = "change_instance"
                        /\ UNCHANGED threads
                        /\ Len(direct'[u]) = Len(direct[u]) + 1
                        /\ \A w \in Users \ {u} : direct'[w] = direct[w]
             ELSE UNCHANGED <<provider, threads, modals, direct, chat>>]_vars

\* an unnamed callback id arrived while a unit of a named one was on its way
UnhandledSubmissionIgnored ==
    /\ exchange.command = "view_submission"
    /\ exchange.text \in {<<c>> : c \in OtherCallbackIds}
    /\ \E t \in DOMAIN threads : ~Over(threads[t])

\* the inbound events that may start a unit
StartingEvent ==
    \/ exchange'.command = "view_submission"
    \/ /\ exchange'.command = "/ebs"
       /\ exchange'.text \in {<<"detach">>, <<"destroy", "please">>}

\* C27: a unit is started only by the step that handles a view_submission,
\* /ebs detach or /ebs destroy please, one unit for one such event, so the
\* units started never outnumber these events; a submission uses up the modal
\* it submits; the step that opens a modal starts no unit and sends nothing,
\* and messages are sent only by a started unit or by the handler of an event.
UnitsStartedByEventsOnly ==
    [][/\ Len(threads') \in {Len(threads), Len(threads) + 1}
       /\ Starts =>
            /\ RequestStep
            /\ StartingEvent
            /\ exchange'.user = Started.user
            /\ exchange'.command = "view_submission" =>
                  \E c \in CallbackIds :
                     /\ exchange'.text = <<c>>
                     /\ Started.function = OperationOf(c)
                     /\ modals'[Started.user][c] = modals[Started.user][c] - 1
            /\ exchange'.command = "/ebs" => UNCHANGED modals
       /\ (\E u \in Users, c \in CallbackIds : modals'[u][c] > modals[u][c]) =>
            /\ ~StartingEvent
            /\ UNCHANGED <<threads, direct, chat, provider>>
       /\ direct' # direct => exchange'.command = "view_submission"
       /\ \A t \in DOMAIN threads :
             threads'[t].posted # threads[t].posted => ~RequestStep]_vars

\* a modal is still open, never submitted, and the only unit there is was
\* started by /ebs detach and has ended
ModalOpenedNeverSubmitted ==
    /\ OpenModals > 0
    /\ Len(threads) = 1
    /\ threads[1].function = "detach_volume"
    /\ Over(threads[1])
    /\ direct = [u \in Users |-> <<>>]

\* C28: handle_ebs_commands answers every text in every provider state with a
\* reply of its own: neither `assert False, "Unhandled EBS command"` nor any
\* other exception ends it, for the empty text and for a verb followed by more
\* words as well.
EbsCommandAlwaysReplies ==
    exchange.command = "/ebs" => exchange.reply \notin {"AssertionError", "IndexError"}

\* C29: units are neither excluded by one another nor capped: whatever units
\* are on their way, a command is handled and the submission of an open modal
\* starts its unit at once.
NewRequestsNeverWait ==
    \A u \in Users :
       /\ ENABLED (open_volume_create_modal(u) /\ UNCHANGED exchange)
       /\ ENABLED (open_volume_attach_modal(u) /\ UNCHANGED exchange)
       /\ ENABLED (ebs_detach(u) /\ UNCHANGED exchange)
       /\ ENABLED (ebs_destroy_please(u) /\ UNCHANGED exchange)
       /\ modals[u]["create_volume"] > 0 =>
             \A s \in SubmittedSizes :
                ENABLED (submit_create_volume(u, s) /\ UNCHANGED exchange)
       /\ modals[u]["attach_volume"] > 0 =>
             \A i \in DOMAIN instances :
                ENABLED (submit_attach_volume(u, i) /\ UNCHANGED exchange)

\* two identical submissions of one user, both operations on their way
IdenticalUnitsInFlight ==
    /\ Len(threads) = 2
    /\ threads[1] = threads[2]
    /\ threads[1].function = "create_volume"
    /\ threads[1].unit = "background"
    /\ threads[1].pc = "create"

\* the launch that created instance i, and the parts of its script
LaunchOf(i) ==
    CHOOSE t \in DOMAIN threads :
       threads[t].function = "launch_ec2_instance" /\ threads[t].response = i

Launched(i) ==
    \E t \in DOMAIN threads :
       threads[t].function = "launch_ec2_instance" /\ threads[t].response = i

\* where the sequence `part` sits in the sequence `whole`
Occurrences(part, whole) ==
    {k \in 0..(Len(whole) - Len(part)) : SubSeq(whole, k + 1, k + Len(part)) = part}

HeredocOpens == Line("sudo su $USER -c 'bash -s' <<'UNLIKELY_STRING'")

\* C30: the script of a launched instance is, in this order, the preamble, the
\* mount part of its mount option (none: nothing; efs: the EFS block; efs_root:
\* the EFS block and then one bind-mount line, nowhere else; ebs: the EBS
\* block), and the heredoc run as the user of the image, which holds the
\* startup script of the image followed by the text the user typed.
BootScriptInOrder ==
    \A i \in DOMAIN instances :
       Launched(i) =>
          LET th == threads[LaunchOf(i)]
              script == instances[i].user_data
              uid == "uid-" \o th.user
              mount == CASE th.mount_option = "efs" -> EfsFragment(uid)
                         [] th.mount_option = "efs_root" -> EfsFragment(uid) \o BindLine
                         [] th.mount_option = "ebs" -> EbsFragment
                         [] OTHER -> <<>>
              head == Preamble(th.ami_user) \o mount \o Line("cd $HOME") \o HeredocOpens
          IN /\ Len(script) >= Len(head) + 2
             /\ SubSeq(script, 1, Len(head)) = head
             /\ SubSeq(script, Len(head) + 1, Len(script) - 2) = th.startup_script.text
             /\ SubSeq(script, Len(script) - 1, Len(script)) = <<"\n", "UNLIKELY_STRING">>
             /\ Cardinality(Occurrences(BindLine, script)) =
                   (IF th.mount_option = "efs_root" THEN 1 ELSE 0)
             /\ \E a \in DOMAIN config.amis, s \in StartupTexts :
                   /\ th.ami_user = config.amis[a].user
                   /\ th.startup_script.text = config.amis[a].startup_script.text \o s.text

\* an instance launched with efs_root from the image that has a startup script,
\* by a user who typed two lines more
BootedWithBothFragments ==
    \E i \in DOMAIN instances :
       /\ Launched(i)
       /\ threads[LaunchOf(i)].mount_option = "efs_root"
       /\ threads[LaunchOf(i)].pc = "done"
       /\ threads[LaunchOf(i)].startup_script.text =
             <<"conda init", "pip install x", "\n", "make", "\n">>
       /\ Occurrences(BindLine, instances[i].user_data) # {}

\* the step that answers the request in flight
Answers == InFlight /\ exchange' # exchange

\* C31: a request to a path under /slack/ with an invalid signature is answered
\* with "Invalid Slack signature" (400) and nothing else happens: no modal, no
\* unit, no message, no change at the provider; a request to any other path is
\* never answered so, signed or not.
InvalidSignatureRejected ==
    [][Answers =>
          IF UnderSlack(exchange.path) /\ ~exchange.signed
          THEN /\ exchange'.reply = "Invalid Slack signature"
               /\ UNCHANGED <<provider, threads, modals, direct, chat, config>>
          ELSE /\ exchange'.reply # "Invalid Slack signature"
               /\ exchange.path = <<"healthz">> => exchange'.reply = "ok"]_vars

\* a forged submission of a modal that is open was turned away, and so was a
\* forged /ebs detach of the owner of a volume
ForgedRequestRejected ==
    /\ exchange.reply = "Invalid Slack signature"
    /\ \/ /\ exchange.path = <<"slack", "events">>
          /\ exchange.content_type = "application/x-www-form-urlencoded"
          /\ modals[exchange.user][exchange.text[1]] > 0
       \/ /\ exchange.path = <<"slack", "commands">>
          /\ exchange.text = <<"detach">>
          /\ VolumesOf(exchange.user) # {}

\* C32: a unit started by a terminate, stop, start, change_instance or
\* attach_volume submission of a user changes, and attaches a volume to, only
\* instances that carry the tag User = that user, whatever instance ids the
\* submission named.
SubmissionsTouchOwnInstancesOnly ==
    [][\A t \in DOMAIN threads :
          (/\ threads'[t] # threads[t]
           /\ threads[t].function \in
                 {"terminate_ec2_instances", "stop_ec2_instances", "start_ec2_instances",
                  "change_instance_type", "attach_volume"}) =>
             \A i \in DOMAIN instances :
                (\/ instances'[i] # instances[i]
                 \/ \E v \in DOMAIN volumes : i \in volumes'[v].att \ volumes[v].att) =>
                   HasTag(instances[i].tags, "User", threads[t].user)]_vars

\* C33: a unit started by a resize_volume or attach_volume submission of a user
\* who had no volume at submission (the unit holds no volume id) ends with
\* exactly one message to that user, and it changes no volume.
VolumeSubmissionAlwaysAnswered ==
    /\ [](\A t \in DOMAIN threads :
            (/\ threads[t].function \in {"resize_volume", "attach_volume"}
             /\ threads[t].volume_id = None
             /\ Over(threads[t])) =>
               /\ Len(threads[t].posted) = 1
               /\ threads[t].posted[1].channel = threads[t].user)
    /\ [][\A t \in DOMAIN threads :
            (/\ threads[t].function \in {"resize_volume", "attach_volume"}
             /\ threads[t].volume_id = None
             /\ threads'[t] # threads[t]) => volumes' = volumes]_vars

\* C34: a launch unit with mount option ebs calls run_instances (a new instance
\* appears as its response) only if its user had a volume when the launch modal
\* was submitted, that is, only if the unit holds a volume id.
EbsLaunchNeedsVolume ==
    [][\A t \in DOMAIN threads :
          (/\ Running(t, "launch_ec2_instance", "run_instances")
           /\ threads[t].mount_option = "ebs"
           /\ threads'[t] # threads[t]
           /\ Len(instances') = Len(instances) + 1) =>
             threads[t].volume_id # None]_vars

\* the modify-type call of unit t is refused by the provider in this step
ModifyRefused(t) ==
    /\ Unit(t, "change_instance_type")
    /\ threads[t].pc = "modify_instance_attribute"
    /\ threads[t].raised = "-"
    /\ threads'[t].raised = "ClientError"

\* the unit ends here, and "Error changing instance type: ..." is its one message
EndsWithChangeError(t) ==
    /\ threads'[t].pc = "failed"
    /\ Len(threads'[t].posted) = 1
    /\ threads'[t].posted[1].channel = threads[t].user
    /\ threads'[t].posted[1].text = "Error changing instance type: {}"
    /\ threads'[t].posted[1].arg = "ClientError"

\* C35 as written: when the modify-type call of a change is refused, the unit
\* ends with the one message "Error changing instance type: ..." and the
\* instance is stopped with its old type.
RefusedChangeLeavesStopped ==
    [][\A t \in DOMAIN threads :
          ModifyRefused(t) =>
             /\ EndsWithChangeError(t)
             /\ \A i \in threads[t].instance_ids :
                   /\ instances'[i] = instances[i]
                   /\ instances'[i].state = "stopped"
                   /\ instances'[i].type # threads[t].instance_type]_vars

\* C35: when the modify-type call of a change is refused, the unit ends with the
\* one message "Error changing instance type: ..." and takes no further step (it
\* does not start the instance); the step changes no instance, and if no other
\* operation names the instance, the instance is stopped and has the type it
\* had, not the requested one.
RefusedChangeAloneLeavesStopped ==
    [][\A t \in DOMAIN threads :
          /\ ModifyRefused(t) =>
                /\ EndsWithChangeError(t)
                /\ instances' = instances
                /\ Alone(t) =>
                      \A i \in threads[t].instance_ids :
                         /\ instances'[i].state = "stopped"
                         /\ instances'[i].type # threads[t].instance_type
          /\ (Unit(t, "change_instance_type") /\ threads[t].pc = "failed") =>
                threads'[t] = threads[t]]_vars

RefusedChange ==
    \E t \in DOMAIN threads :
       /\ Unit(t, "change_instance_type") /\ Alone(t)
       /\ threads[t].pc = "failed" /\ threads[t].raised = "ClientError"
       /\ Len(threads[t].posted) = 1
       /\ threads[t].posted[1].text = "Error changing instance type: {}"
       /\ \A i \in threads[t].instance_ids :
             /\ instances[i].state = "stopped"
             /\ instances[i].type # threads[t].instance_type

\* the import of unit t is refused by the provider in this step
ImportRefused(t) ==
    /\ Unit(t, "create_key_pair")
    /\ threads[t].pc = "import_key_pair"
    /\ threads'[t].pc = "failed"

\* "Failed to store public key: ..." is the one message of the unit
OneStoreFailure(th) ==
    /\ Len(th.posted) = 1
    /\ th.posted[1].channel = th.user
    /\ th.posted[1].text = "Failed to store public key: {}"

\* the reply of /ec2 up to a user without a key pair
UploadFirst == "Please upload your public key first with /ec2 key."

\* C36 as written: when the import of a key replacement is refused, the owner has
\* no key pair, and the unit has sent the one message "Failed to store public
\* key: ...".
RefusedImportLeavesNoKey ==
    [][\A t \in DOMAIN threads :
          ImportRefused(t) =>
             /\ KeysOf(threads[t].user)' = {}
             /\ OneStoreFailure(threads'[t])]_vars

\* C36: a key replacement first asks the provider to delete the owner's key pair
\* (the owner's key pairs are gone, or, the call refused, all are as they were)
\* and only then imports; a refused import sends the one message "Failed to
\* store public key: ...", stores nothing and puts nothing back; and /ec2 up of a
\* user who has no key pair is answered with the upload-your-key reply and opens
\* no modal.
KeyReplacedInTwoSteps ==
    [][/\ \A t \in DOMAIN threads :
             /\ (Unit(t, "create_key_pair") /\ threads[t].pc = "delete_key_pair"
                    /\ threads'[t] # threads[t]) =>
                   /\ threads'[t].pc = "import_key_pair"
                   /\ \/ key_pairs' = key_pairs
                      \/ key_pairs' = {p \in key_pairs : p.KeyName # threads[t].user}
             /\ ImportRefused(t) =>
                   /\ OneStoreFailure(threads'[t])
                   /\ key_pairs' = key_pairs
       /\ (/\ exchange'.command = "/ec2" /\ exchange'.text = <<"up">>
           /\ exchange' # exchange \/ modals' # modals
           /\ KeysOf(exchange'.user) = {}) =>
             /\ exchange'.reply = UploadFirst
             /\ modals' = modals]_vars

\* u1 had a key pair; the one replacement failed at its import, the old key is
\* gone, and /ec2 up was answered with the upload-your-key reply
KeyLostByReplacement ==
    /\ Len(threads) = 1
    /\ Unit(1, "create_key_pair") /\ threads[1].user = "u1"
    /\ threads[1].pc = "failed" /\ OneStoreFailure(threads[1])
    /\ KeysOf("u1") = {}
    /\ exchange.user = "u1" /\ exchange.command = "/ec2" /\ exchange.text = <<"up">>
    /\ exchange.reply = UploadFirst

ScannerStarted == \E t \in DOMAIN threads : threads[t].function = "run_checks"

\* a pass of the scanner has just ended and its sleep has begun
PassCompleted ==
    \E t \in DOMAIN threads : threads[t].function = "run_checks" /\ threads[t].pc = "sleep"

\* C37: once the scanner is started, it completes a check pass again and again,
\* whatever failed in the passes before.
ScannerKeepsChecking == ScannerStarted ~> PassCompleted

\* C38: in both configurations, with default_tags and without, get_tags_for_user
\* returns its list (the owner tag alone when default_tags is absent), so no
\* launch and no create-volume ends in an error of get_tags_for_user, and every
\* instance a launch created carries the owner tag first.
TagsInBothConfigurations ==
    /\ \A t \in DOMAIN threads :
          threads[t].function \in {"launch_ec2_instance", "create_volume"} =>
             threads[t].raised # "AttributeError"
    /\ \A t \in DOMAIN threads :
          (threads[t].function = "launch_ec2_instance" /\ threads[t].response # None) =>
             instances[threads[t].response].tags[1] =
                [Key |-> "User", Value |-> threads[t].user]
====
